---- MODULE Spec2Model ----
(***************************************************************************)
(* Cross-chain message lifecycle monitor (src/src/lib/CrossChainMonitor.ts) *)
(* and swap-bridge-swap orchestrator (src/src/lib/SuperchainSwapService.ts) *)
(* modelled as a state machine over a small world of chains, logs and      *)
(* transactions.  Chain reads and transaction submissions are the          *)
(* suspension points of the program; each may succeed or raise.            *)
(***************************************************************************)
EXTENDS Integers, Sequences, FiniteSets, TLC

VARIABLES
    height,               \* chain id -> latest block number of the chain
    logs,                 \* chain id -> sequence of event logs on the chain
    stalled,              \* the chain whose reads may never return (0: none)
    account,              \* PortoCrossChainAccount on 901: storage, last transaction
    isMonitoring,         \* CrossChainMonitor.isMonitoring
    monitoringIntervals,  \* CrossChainMonitor.monitoringIntervals (live timers)
    ticks,                \* chain id -> slot -> poll tick in flight (async frame)
    lastOp,               \* the last API call made on the monitor and its outcome
    lastCallback,         \* the last invocation of a subscription callback
    reported,             \* source tx hash -> lifecycle state last reported for it
    pollError,            \* chain of the last 'Error polling chain' logged (0: none)
    now,                  \* Date.now(), in seconds
    batch,                \* the getMessagesStatus call in flight and its outcome
    waiter,               \* the waitForRelay call in flight and its outcome
    workflow,             \* the executeSwapBridgeSwap call in flight and its outcome
    completion,           \* the waitForCompletion call in flight and its outcome
    codec                 \* the message the codec is applied to and what it gave

vars == <<height, logs, stalled, account, isMonitoring, monitoringIntervals, ticks,
          lastOp, lastCallback, reported, pollError, now, batch, waiter,
          workflow, completion, codec>>

world == <<height, logs, stalled, account>>
monitor == <<isMonitoring, monitoringIntervals>>
observed == <<lastOp, lastCallback, reported, pollError>>
frames == <<now, batch, waiter, workflow, completion, codec>>

-----------------------------------------------------------------------------
(* Bounds of the model *)

MaxRelayLogs == 2      \* relay/failure events the relayer appends in total
MaxMined == 1          \* blocks mined per chain after the initial state
MaxTicks == 2          \* poll ticks of one chain that may be in flight at once
MaxOverlap == 1        \* the same, where progress under fairness is checked
MaxBatch == 2          \* entries of one getMessagesStatus call
MaxTimeout == 6        \* largest timeout a caller passes, in seconds
MaxPollTime == 3       \* longest time one status query takes, in seconds
MaxDestination == 16777215  \* largest destination chain id of a message
MaxNonce == 16777214   \* largest nonce of a message
YoungHeight == 8       \* height of a chain started a few blocks ago
MaxUint == 3           \* type(uint256).max of the account contract's arithmetic

-----------------------------------------------------------------------------
(* Program constants *)

SENT_MESSAGE_SIGNATURE == "SentMessage(uint256,address,uint256,address,bytes)"
RELAYED_MESSAGE_SIGNATURE == "RelayedMessage(bytes32)"
FAILED_RELAYED_MESSAGE_SIGNATURE == "FailedRelayedMessage(bytes32)"

WindowSize == 10       \* trailing window of pollChainForMessages
PollInterval == 2      \* seconds waitForRelay sleeps between two polls
CompletionInterval == 5 \* seconds waitForCompletion sleeps between two polls
EstimatedTime == 180   \* estimatedTime of every SwapBridgeSwapResult
MessageExpiry == 4     \* seconds, the messageExpiry the monitor is configured with

-----------------------------------------------------------------------------
(* Configuration passed to the constructor and the world around it *)

ConfigChains == <<901, 902>>                      \* config.chains, in order
Clients == {ConfigChains[i] : i \in DOMAIN ConfigChains}
ChainIds == Clients \cup {903}                    \* 903: a chain without a client

MessengerAddress == "0xMessenger"                 \* chainConfig.messengerAddress
TokenAddress == "0xToken"

Callbacks == {"cb1", "cb2"}                       \* subscription callbacks
Undefined == "undefined"
NoHash == <<>>

TxHashes == {"0xAA", "0xBB", "0xCC", "0xDD"}
RelayTxHashes == <<"0xR1", "0xR2", "0xR3", "0xR4">>

BlockTimestamp(chainId, blockNumber) == chainId * 100 + 2 * blockNumber

Log(address, topics, data, blockNumber, logIndex, transactionHash) ==
    [address |-> address, topics |-> topics, data |-> data,
     blockNumber |-> blockNumber, logIndex |-> logIndex,
     transactionHash |-> transactionHash]

\* 0xAA on 901 sends a message to 902; 0xBB on 901 emits no SentMessage;
\* 0xCC on 902 sends a message to a chain the monitor has no client for.
InitialLogs ==
    [c \in Clients |->
       IF c = 901
       THEN << Log(TokenAddress, <<"Transfer(address,address,uint256)">>, <<>>,
                   WindowSize - 1, 0, "0xBB"),
               Log(TokenAddress, <<"Transfer(address,address,uint256)">>, <<>>,
                   WindowSize, 0, "0xAA"),
               Log(MessengerAddress,
                   <<SENT_MESSAGE_SIGNATURE, 902, "0xTarget", 7>>,
                   <<"0xSender", "0xPayloadA">>, WindowSize, 1, "0xAA") >>
       ELSE << Log(MessengerAddress,
                   <<SENT_MESSAGE_SIGNATURE, 903, "0xTarget", 8>>,
                   <<"0xSender", "0xPayloadC">>, WindowSize, 0, "0xCC") >>]

\* The same transactions on chains that have been started a few blocks ago
\* (YoungHeight, below the size of the window): the logs are in the last two
\* blocks

YoungLogs ==
    [c \in Clients |->
       [i \in DOMAIN InitialLogs[c] |->
          [InitialLogs[c][i] EXCEPT !.blockNumber = @ - (WindowSize - YoungHeight)]]]

\* The same world after 0xDD on 902 has emitted a SentMessage log that lacks
\* its nonce topic
MalformedLogs ==
    [InitialLogs EXCEPT ![902] =
       Append(@, Log(MessengerAddress, <<SENT_MESSAGE_SIGNATURE, 901, "0xTarget">>,
                     <<"0xSender", "0xPayloadD">>, WindowSize, 0, "0xDD"))]

\* The same world after 0xDD has emitted a second SentMessage log, a
\* well-formed one: a scan of 902 meets a log that decodes, one that does
\* not, and one that decodes again
ScanLogs ==
    [MalformedLogs EXCEPT ![902] =
       Append(@, Log(MessengerAddress,
                     <<SENT_MESSAGE_SIGNATURE, 901, "0xTarget", 9>>,
                     <<"0xSender", "0xPayloadD">>, WindowSize, 1, "0xDD"))]

-----------------------------------------------------------------------------
(* Message codec *)

Topic(log, i) == IF i <= Len(log.topics) THEN log.topics[i] ELSE Undefined

\* BigInt(log.topics[3]) raises a TypeError when the log has no nonce topic
DecodeThrows(log) == Len(log.topics) < 4

DecodeSentMessage(log) ==
    [destination |-> Topic(log, 2),
     target      |-> Topic(log, 3),
     nonce       |-> Topic(log, 4),
     sender      |-> log.data[1],
     message     |-> log.data[2]]

CreateMessageIdentifier(chainId, log, blockNumber) ==
    [origin      |-> log.address,
     blockNumber |-> blockNumber,
     logIndex    |-> log.logIndex,
     timestamp   |-> BlockTimestamp(chainId, blockNumber),
     chainId     |-> chainId]

NoIdentifier ==
    [origin |-> Undefined, blockNumber |-> 0, logIndex |-> 0, timestamp |-> 0,
     chainId |-> 0]

Keccak256(preimage) == <<"keccak256", preimage>>

CalculateMessageHash(identifier, sentMessage) ==
    LET msgHash == Keccak256(<<SENT_MESSAGE_SIGNATURE, sentMessage.destination,
                               sentMessage.target, sentMessage.nonce,
                               sentMessage.sender, sentMessage.message>>)
    IN  Keccak256(<< <<identifier.origin, identifier.blockNumber,
                       identifier.logIndex, identifier.timestamp,
                       identifier.chainId>>, msgHash >>)

-----------------------------------------------------------------------------
(* The codec on hexadecimal strings.  A string is the sequence of its      *)
(* characters: a hexadecimal digit is its value, 16 is the letter x.  The   *)
(* monitor above works on the fields of a log; here the log is the text    *)
(* the chain client returns.                                               *)

HexPrefix == <<0, 16>>

\* 0x382409ac...f320, keccak256 of the SentMessage signature
SENT_MESSAGE_SIGNATURE_HEX ==
    HexPrefix \o
    <<
       3, 8, 2, 4, 0, 9, 10, 12, 6, 9, 0, 0, 1, 14, 1, 1, 9, 3, 1,
       10, 2, 8, 4, 3, 5, 10, 15, 14, 15, 4, 4, 2, 12, 11, 15, 13,
       2, 0, 13, 9, 8, 9, 1, 9, 0, 7, 14, 8, 15, 10, 3, 7, 3, 11,
       10, 7, 13, 3, 5, 1, 15, 3, 2, 0 >>

\* String.prototype.slice(start, end) and slice(start), 0 <= start; an index
\* that is NaN (-1 here) counts as 0
Slice(str, start, end) ==
    SubSeq(str, (IF start < 0 THEN 0 ELSE start) + 1,
           IF end < 0 THEN 0 ELSE IF end < Len(str) THEN end ELSE Len(str))

SliceFrom(str, start) == SubSeq(str, start + 1, Len(str))

\* The digits of a string of digits after its leading zeros
Significant(digits) ==
    LET I == {i \in DOMAIN digits : digits[i] # 0}
    IN  IF I = {} THEN <<>>
        ELSE SubSeq(digits, CHOOSE i \in I : \A j \in I : i <= j, Len(digits))

RECURSIVE DigitsValue(_)
DigitsValue(digits) ==
    IF digits = <<>> THEN 0
    ELSE DigitsValue(SubSeq(digits, 1, Len(digits) - 1)) * 16
         + digits[Len(digits)]

HexValue(digits) == DigitsValue(Significant(digits))

LeadingDigits(str) ==
    LET I == {i \in DOMAIN str : str[i] \notin 0..15}
    IN  IF I = {} THEN str
        ELSE SubSeq(str, 1, (CHOOSE i \in I : \A j \in I : i <= j) - 1)

\* parseInt(str, 16): an optional 0x, then the digits up to the first
\* character that is none; -1 stands for NaN
ParseInt16(str) ==
    LET body == IF Len(str) >= 2 /\ SubSeq(str, 1, 2) = HexPrefix
                THEN SliceFrom(str, 2) ELSE str
        digits == LeadingDigits(body)
    IN  IF digits = <<>> THEN -1 ELSE HexValue(digits)

\* BigInt(str) of a 0x string
BigIntOfHex(str) == HexValue(SliceFrom(str, 2))

\* BigInt(str) raises a SyntaxError for a 0x string without digits or with a
\* character that is no digit (the empty string is 0n)
BigIntThrows(str) ==
    /\ str # <<>>
    /\ \/ Len(str) < 3
       \/ SubSeq(str, 1, 2) # HexPrefix
       \/ \E i \in 3..Len(str) : str[i] \notin 0..15

\* Arithmetic on numbers that may be NaN (-1 here)
Times(n, k) == IF n < 0 THEN -1 ELSE n * k

Plus(n, k) == IF n < 0 \/ k < 0 THEN -1 ELSE n + k

\* decodeSentMessage raises only at BigInt(log.topics[3]): a TypeError when
\* the log has no fourth topic, a SyntaxError when that topic is no number
DecodeSentMessageHexThrows(log) ==
    \/ Len(log.topics) < 4
    \/ BigIntThrows(log.topics[4])

\* A decoder that takes the offset of the payload for a position in the
\* hexadecimal text
DecodeSentMessageHexByteOffset(log) ==
    LET dataHex == SliceFrom(log.data, 2)
        senderHex == Slice(dataHex, 0, 64)
        messageOffset == ParseInt16(Slice(dataHex, 64, 128))
        messageLength ==
            Times(ParseInt16(Slice(dataHex, messageOffset,
                                   Plus(messageOffset, 64))), 2)
    IN  [destination |-> ParseInt16(log.topics[2]),
         target      |-> HexPrefix \o SliceFrom(log.topics[3], 26),
         nonce       |-> BigIntOfHex(log.topics[4]),
         sender      |-> HexPrefix \o SliceFrom(senderHex, 24),
         message     |-> HexPrefix
                         \o Slice(dataHex, Plus(messageOffset, 64),
                                  Plus(Plus(messageOffset, 64), messageLength))]

\* decodeSentMessage on the text of the log; topics[k] of the code is
\* log.topics[k + 1] here
DecodeSentMessageHex(log) ==
    LET dataHex == SliceFrom(log.data, 2)
        senderHex == Slice(dataHex, 0, 64)
        messageOffset == Times(ParseInt16(Slice(dataHex, 64, 128)), 2)
        messageLength ==
            Times(ParseInt16(Slice(dataHex, messageOffset,
                                   Plus(messageOffset, 64))), 2)
    IN  [destination |-> ParseInt16(log.topics[2]),
         target      |-> HexPrefix \o SliceFrom(log.topics[3], 26),
         nonce       |-> BigIntOfHex(log.topics[4]),
         sender      |-> HexPrefix \o SliceFrom(senderHex, 24),
         message     |-> HexPrefix
                         \o Slice(dataHex, Plus(messageOffset, 64),
                                  Plus(Plus(messageOffset, 64), messageLength))]

\* ABI encoding: a value is a word of 64 digits, numbers and addresses
\* padded on the left; bytes are their length and the bytes padded on the
\* right to whole words
Zeros(size) == [i \in 1..size |-> 0]

RECURSIVE HexDigits(_)
HexDigits(n) ==
    IF n = 0 THEN <<>> ELSE Append(HexDigits(n \div 16), n % 16)

NumberToHex(n, size) == Zeros(size - Len(HexDigits(n))) \o HexDigits(n)

EncodeUint256(n) == NumberToHex(n, 64)

EncodeAddress(address) == Zeros(24) \o SliceFrom(address, 2)

\* An encoding of bytes without their length
EncodeBytesPacked(bytes) ==
    LET digits == SliceFrom(bytes, 2)
    IN  digits \o Zeros((64 - (Len(digits) % 64)) % 64)

EncodeBytes(bytes) ==
    LET digits == SliceFrom(bytes, 2)
    IN  EncodeUint256(Len(digits) \div 2) \o digits
        \o Zeros((64 - (Len(digits) % 64)) % 64)

\* The log the messenger emits for a message: three indexed arguments as
\* topics, sender and payload ABI-encoded as data
EncodeSentMessage(sentMessage) ==
    Log(MessengerAddress,
        << SENT_MESSAGE_SIGNATURE_HEX,
           HexPrefix \o EncodeUint256(sentMessage.destination),
           HexPrefix \o EncodeAddress(sentMessage.target),
           HexPrefix \o EncodeUint256(sentMessage.nonce) >>,
        HexPrefix \o EncodeAddress(sentMessage.sender) \o EncodeUint256(64)
        \o EncodeBytes(sentMessage.message),
        WindowSize, 0, "0xAA")

\* calculateMessageHash on the text of its arguments: both preimages are
\* encodeAbiParameters of the values, the second holds the first hash
CalculateMessageHashAbi(identifier, sentMessage) ==
    LET msgHash ==
            Keccak256(HexPrefix
                      \o SliceFrom(SENT_MESSAGE_SIGNATURE_HEX, 2)
                      \o EncodeUint256(sentMessage.destination)
                      \o EncodeAddress(sentMessage.target)
                      \o EncodeUint256(sentMessage.nonce)
                      \o EncodeAddress(sentMessage.sender)
                      \o EncodeUint256(192)
                      \o EncodeBytes(sentMessage.message))
    IN  Keccak256(<< HexPrefix
                     \o EncodeAddress(identifier.origin)
                     \o EncodeUint256(identifier.blockNumber)
                     \o EncodeUint256(identifier.logIndex)
                     \o EncodeUint256(identifier.timestamp)
                     \o EncodeUint256(identifier.chainId),
                     msgHash >>)

\* The messages and identifiers the codec is applied to
PredeployAddress(n) == HexPrefix \o <<4, 2>> \o NumberToHex(n, 38)

HexAddresses == {PredeployAddress(34), PredeployAddress(35)}

Payloads ==
    { HexPrefix,
      HexPrefix \o <<10, 11>>,
      HexPrefix \o <<10, 11, 0, 0>>,
      HexPrefix \o [i \in 1..64 |-> i % 16],
      HexPrefix \o [i \in 1..66 |-> i % 16] }

SentMessages ==
    [destination : {0, 902, MaxDestination}, target : HexAddresses,
     nonce : {0, 7, MaxNonce}, sender : HexAddresses, message : Payloads]

NoMessage ==
    [destination |-> 0, target |-> <<>>, nonce |-> 0, sender |-> <<>>,
     message |-> <<>>]

HashInput(identifier, sentMessage) ==
    [identifier |-> identifier, message |-> sentMessage]

BaseInput ==
    HashInput([origin |-> PredeployAddress(35), blockNumber |-> 10,
               logIndex |-> 1, timestamp |-> BlockTimestamp(901, 10),
               chainId |-> 901],
              [destination |-> 902, target |-> PredeployAddress(34),
               nonce |-> 7, sender |-> PredeployAddress(35),
               message |-> HexPrefix \o <<10, 11>>])

\* The input itself and every input that differs from it in one field
Variants(input) ==
    {input}
    \cup {[input EXCEPT !.message.destination = v] : v \in {902, 903, MaxDestination}}
    \cup {[input EXCEPT !.message.target = v] : v \in HexAddresses}
    \cup {[input EXCEPT !.message.nonce = v] : v \in {7, 8, MaxNonce}}
    \cup {[input EXCEPT !.message.sender = v] : v \in HexAddresses}
    \cup {[input EXCEPT !.message.message = v] : v \in Payloads}
    \cup {[input EXCEPT !.identifier.origin = v] : v \in HexAddresses}
    \cup {[input EXCEPT !.identifier.blockNumber = v] : v \in {1, 10}}
    \cup {[input EXCEPT !.identifier.logIndex = v] : v \in {1, 10}}
    \cup {[input EXCEPT !.identifier.timestamp = v] :
             v \in {BlockTimestamp(901, 10), BlockTimestamp(902, 10)}}
    \cup {[input EXCEPT !.identifier.chainId = v] : v \in {901, 902}}

-----------------------------------------------------------------------------
(* Chain client pool: the reads the monitor performs on a chain *)

\* Array.find over event logs: the index of the first log with this
\* signature and this indexed argument, 0 when there is none
FindLog(seq, signature, messageHash) ==
    LET I == {i \in DOMAIN seq : /\ Topic(seq[i], 1) = signature
                                 /\ Topic(seq[i], 2) = messageHash}
    IN  IF I = {} THEN 0 ELSE CHOOSE i \in I : \A j \in I : i <= j

GetLogs(chainId, address, fromBlock) ==
    SelectSeq(logs[chainId],
              LAMBDA l : l.address = address /\ l.blockNumber >= fromBlock)

HasReceipt(chainId, txHash) ==
    \E i \in DOMAIN logs[chainId] : logs[chainId][i].transactionHash = txHash

GetTransactionReceipt(chainId, txHash) ==
    LET txLogs == SelectSeq(logs[chainId], LAMBDA l : l.transactionHash = txHash)
    IN  [blockNumber |-> txLogs[1].blockNumber, logs |-> txLogs]

-----------------------------------------------------------------------------
(* Destination probe *)

\* A probe that records the transaction of the first log read, not of the
\* log that matched
CheckRelayStatusFirstLog(destinationChainId, messageHash, rpcOk) ==
    IF destinationChainId \notin Clients
    THEN [isRelayed |-> FALSE, status |-> "failed", txHash |-> Undefined,
          error |-> "No client for destination chain"]
    ELSE IF ~rpcOk
    THEN [isRelayed |-> FALSE, status |-> "failed", txHash |-> Undefined,
          error |-> "Error checking relay status"]
    ELSE
      LET relayedLogs == GetLogs(destinationChainId, MessengerAddress, 0)
          relayed == FindLog(relayedLogs, RELAYED_MESSAGE_SIGNATURE, messageHash)
          failed  == FindLog(relayedLogs, FAILED_RELAYED_MESSAGE_SIGNATURE,
                             messageHash)
      IN  IF relayed # 0
          THEN [isRelayed |-> TRUE, status |-> "relayed",
                txHash |-> relayedLogs[1].transactionHash,
                error |-> Undefined]
          ELSE IF failed # 0
          THEN [isRelayed |-> TRUE, status |-> "failed",
                txHash |-> relayedLogs[1].transactionHash,
                error |-> "Message relay failed on destination chain"]
          ELSE [isRelayed |-> FALSE, status |-> "failed", txHash |-> Undefined,
                error |-> Undefined]

CheckRelayStatus(destinationChainId, messageHash, rpcOk) ==
    IF destinationChainId \notin Clients
    THEN [isRelayed |-> FALSE, status |-> "failed", txHash |-> Undefined,
          error |-> "No client for destination chain"]
    ELSE IF ~rpcOk
    THEN [isRelayed |-> FALSE, status |-> "failed", txHash |-> Undefined,
          error |-> "Error checking relay status"]
    ELSE
      LET relayedLogs == GetLogs(destinationChainId, MessengerAddress, 0)
          relayed == FindLog(relayedLogs, RELAYED_MESSAGE_SIGNATURE, messageHash)
          failed  == FindLog(relayedLogs, FAILED_RELAYED_MESSAGE_SIGNATURE,
                             messageHash)
      IN  IF relayed # 0
          THEN [isRelayed |-> TRUE, status |-> "relayed",
                txHash |-> relayedLogs[relayed].transactionHash,
                error |-> Undefined]
          ELSE IF failed # 0
          THEN [isRelayed |-> TRUE, status |-> "failed",
                txHash |-> relayedLogs[failed].transactionHash,
                error |-> "Message relay failed on destination chain"]
          ELSE [isRelayed |-> FALSE, status |-> "failed", txHash |-> Undefined,
                error |-> Undefined]

\* The MessageStatus both monitorMessage and the poll loop build: 'sent',
\* overwritten by the probe's result only when the probe says isRelayed.
MessageStatus(messageHash, identifier, txHash, relayStatus) ==
    [messageHash |-> messageHash,
     identifier  |-> identifier,
     status      |-> IF relayStatus.isRelayed THEN relayStatus.status ELSE "sent",
     txHash      |-> txHash,
     relayTxHash |-> IF relayStatus.isRelayed THEN relayStatus.txHash ELSE Undefined,
     error       |-> IF relayStatus.isRelayed THEN relayStatus.error ELSE Undefined]

NotProbed ==
    [isRelayed |-> FALSE, status |-> "failed", txHash |-> Undefined,
     error |-> Undefined]

NoStatus ==
    [messageHash |-> NoHash, identifier |-> NoIdentifier, status |-> Undefined,
     txHash |-> Undefined, relayTxHash |-> Undefined, error |-> Undefined]

-----------------------------------------------------------------------------
(* monitorMessage: what the call returns or throws.  receiptOk, blockOk and *)
(* logsOk say whether the three chain reads of the call succeed.           *)

Thrown(message) ==
    [kind |-> "error", error |-> message, status |-> NoStatus, probed |-> FALSE]

Returned(status, probed) ==
    [kind |-> "status", error |-> Undefined, status |-> status, probed |-> probed]

SentMessageLogs(receipt) ==
    SelectSeq(receipt.logs, LAMBDA l : Topic(l, 1) = SENT_MESSAGE_SIGNATURE)

\* From the first SentMessage log on: decode, identify, hash, probe
MonitorSentMessage(sourceChainId, txHash, receipt, log, blockOk, logsOk) ==
    LET sentMessage == DecodeSentMessage(log)
        identifier ==
            CreateMessageIdentifier(sourceChainId, log, receipt.blockNumber)
        messageHash == CalculateMessageHash(identifier, sentMessage)
        hasDestinationClient == sentMessage.destination \in Clients
        relayStatus ==
            IF hasDestinationClient
            THEN CheckRelayStatus(sentMessage.destination, messageHash, logsOk)
            ELSE NotProbed
    IN  IF DecodeThrows(log)
        THEN Thrown("Cannot convert undefined to a BigInt")
        ELSE IF ~blockOk
        THEN Thrown("getBlock failed")
        ELSE Returned(MessageStatus(messageHash, identifier, txHash, relayStatus),
                      hasDestinationClient)

\* A monitorMessage without the check for an empty list of SentMessage logs
MonitorMessageResultUnchecked(sourceChainId, txHash, receiptOk, blockOk, logsOk) ==
    IF sourceChainId \notin Clients
    THEN Thrown("No client configured for chain")
    ELSE IF ~receiptOk \/ ~HasReceipt(sourceChainId, txHash)
    THEN Thrown("getTransactionReceipt failed")
    ELSE
      LET receipt == GetTransactionReceipt(sourceChainId, txHash)
          sentMessageLogs == SentMessageLogs(receipt)
      IN  IF Len(sentMessageLogs) = 0
          THEN Returned([NoStatus EXCEPT !.status = "sent", !.txHash = txHash],
                        FALSE)
          ELSE MonitorSentMessage(sourceChainId, txHash, receipt,
                                  sentMessageLogs[1], blockOk, logsOk)

MonitorMessageResult(sourceChainId, txHash, receiptOk, blockOk, logsOk) ==
    IF sourceChainId \notin Clients
    THEN Thrown("No client configured for chain")
    ELSE IF ~receiptOk \/ ~HasReceipt(sourceChainId, txHash)
    THEN Thrown("getTransactionReceipt failed")
    ELSE
      LET receipt == GetTransactionReceipt(sourceChainId, txHash)
          sentMessageLogs == SentMessageLogs(receipt)
      IN  IF Len(sentMessageLogs) = 0
          THEN Thrown("No SentMessage events found in transaction")
          ELSE MonitorSentMessage(sourceChainId, txHash, receipt,
                                  sentMessageLogs[1], blockOk, logsOk)

-----------------------------------------------------------------------------
(* DEX router table and execution provider of the swap service *)

DEX_ROUTERS ==
    [c \in {10, 8453, 1301, 901, 902} |->
       CASE c = 10   -> [router |-> "0xa062aE8A", name |-> "Velodrome Router",
                         type |-> "velodrome"]
         [] c = 8453 -> [router |-> "0xcF77a3Ba", name |-> "Aerodrome Router",
                         type |-> "aerodrome"]
         [] c = 1301 -> [router |-> "0x26266648", name |-> "Uniswap V4 Router",
                         type |-> "uniswap-v4"]
         [] c = 901  -> [router |-> "0x11111111", name |-> "Supersim Mock DEX A",
                         type |-> "uniswap-v3"]
         [] c = 902  -> [router |-> "0x22222222", name |-> "Supersim Mock DEX B",
                         type |-> "uniswap-v3"]]

SUPERCHAIN_TOKENS ==
    [symbol \in {"USDC", "WETH"} |->
       [c \in {10, 8453, 1301} |->
          IF symbol = "WETH" THEN "0x42000006"
          ELSE CASE c = 10 -> "0x0b2C639c" [] c = 8453 -> "0x833589fC"
                 [] c = 1301 -> "0xA0b86a33"]]

\* getRouterConfig(chainId) is undefined for a chain the table lacks
HasRouterConfig(chainId) == chainId \in DOMAIN DEX_ROUTERS

GetRouterConfig(chainId) == DEX_ROUTERS[chainId]

\* getTokenAddress(symbol, chainId), Undefined when the table has no entry
GetTokenAddress(symbol, chainId) ==
    IF symbol \in DOMAIN SUPERCHAIN_TOKENS
       /\ chainId \in DOMAIN SUPERCHAIN_TOKENS[symbol]
    THEN SUPERCHAIN_TOKENS[symbol][chainId]
    ELSE Undefined

\* Token arguments of the model: addresses start with 0x, the rest are symbols
TokenAddresses == {"0xToken", "0xSuper"}

\* resolveTokenAddress: an address is returned as it is, a symbol is looked
\* up; Undefined stands for the error the lookup of an unknown symbol raises
ToUpperCase(symbol) == IF symbol = "usdc" THEN "USDC" ELSE symbol

ResolveTokenAddress(tokenOrSymbol, chainId) ==
    IF tokenOrSymbol \in TokenAddresses THEN tokenOrSymbol
    ELSE GetTokenAddress(ToUpperCase(tokenOrSymbol), chainId)

\* encodeSwapData raises when the chain has no router or a router whose type
\* it has no encoding for
SupportedRouterTypes == {"uniswap-v4", "uniswap-v3", "velodrome", "aerodrome"}

EncodeSwapDataThrows(chainId) ==
    \/ ~HasRouterConfig(chainId)
    \/ GetRouterConfig(chainId).type \notin SupportedRouterTypes

EncodeSwapDataError(chainId) ==
    IF ~HasRouterConfig(chainId) THEN "No router config for chain"
    ELSE "Unsupported DEX type"

\* The call data: which router interface it was encoded for, and its tokens
EncodeSwapData(chainId, tokenIn, tokenOut) ==
    [abi |-> IF GetRouterConfig(chainId).type \in {"uniswap-v4", "uniswap-v3"}
             THEN "exactInputSingle" ELSE "swapExactTokensForTokens",
     tokenIn |-> tokenIn, tokenOut |-> tokenOut]

ProviderChains == <<901, 902, 10>>                \* chains the provider serves
ProviderClients == {ProviderChains[i] : i \in DOMAIN ProviderChains}

SwapTxHashes == <<"0xS1", "0xS2", "0xS3">>        \* hashes of submitted txs

\* Receipts the cross-chain submission may come back with: without event,
\* or with a CrossChainCallInitiated event carrying a message hash
CrossChainReceipts ==
    {[logs |-> <<>>]} \cup
    {[logs |-> << Log("0xAccount", <<"Transfer(address,address,uint256)">>,
                      <<>>, WindowSize, 0, "0xS3"),
                  Log("0xAccount", <<"0x...", h>>, <<>>, WindowSize, 1, "0xS3") >>] :
       h \in {"0xAA", "0xCC", "0xM1"}}

\* extractMessageHashFromReceipt: topics[1] of the first log whose topics[0]
\* is the event signature, undefined when there is none
ExtractMessageHashFromReceipt(receipt) ==
    LET I == {i \in DOMAIN receipt.logs : Topic(receipt.logs[i], 1) = "0x..."}
    IN  IF I = {} THEN Undefined
        ELSE Topic(receipt.logs[CHOOSE i \in I : \A j \in I : i <= j], 2)

-----------------------------------------------------------------------------
(* The PortoCrossChainAccount contract, deployed on chain 901: session keys *)
(* and the bridging they pay for.  A transaction that reverts leaves the    *)
(* storage as it was.                                                       *)

AccountAddress == "0xAccount"                     \* address(this)
SessionKeyAddresses == {"0xKey1", "0xKey2"}
Senders == {AccountAddress} \cup SessionKeyAddresses

\* The value of sessionKeys[a] for an address that was never authorized
NoSessionKey ==
    [expiry |-> 0, canBridge |-> FALSE, canExecute |-> FALSE, spendLimit |-> 0,
     spent |-> 0]

NoCall ==
    [function |-> "constructor", sender |-> Undefined, key |-> Undefined,
     amount |-> 0, reverted |-> FALSE]

ContractCall(function, sender, key, amount, reverted) ==
    [function |-> function, sender |-> sender, key |-> key, amount |-> amount,
     reverted |-> reverted]

\* block.timestamp of the chain the contract is on
AccountTimestamp == BlockTimestamp(901, height[901])

\* Expiries a key is authorized with: none, and one that the next block
\* passes
Expiries == {0, BlockTimestamp(901, WindowSize) + 1}

SpendLimits == {0, MaxUint}

OnlyOwnerOrSession(sender) ==
    \/ sender = AccountAddress
    \/ /\ account.sessionKeys[sender].expiry > AccountTimestamp
       /\ account.sessionKeys[sender].canExecute

AuthorizeSessionKey(sender, key, expiry, canBridge, canExecute, spendLimit) ==
    /\ account' =
         IF sender # AccountAddress
         THEN [account EXCEPT
                 !.lastCall = ContractCall("authorizeSessionKey", sender, key,
                                           spendLimit, TRUE)]
         ELSE [account EXCEPT
                 !.sessionKeys[key] =
                    [expiry |-> expiry, canBridge |-> canBridge,
                     canExecute |-> canExecute, spendLimit |-> spendLimit,
                     spent |-> 0],
                 !.lastCall = ContractCall("authorizeSessionKey", sender, key,
                                           spendLimit, FALSE)]
    /\ UNCHANGED <<height, logs, stalled, monitor, ticks, observed, frames>>

\* Whether bridgeERC20 reverts: the modifier, the canBridge check, the
\* checked addition, the spend limit, and the calls to the token and to the
\* bridge
BridgeERC20Reverts(sender, amount, callsOk) ==
    LET sessionKey == account.sessionKeys[sender]
    IN  \/ ~OnlyOwnerOrSession(sender)
        \/ ~(sender = AccountAddress \/ sessionKey.canBridge)
        \/ /\ sender # AccountAddress
           /\ \/ sessionKey.spent + amount > MaxUint
              \/ sessionKey.spent + amount > sessionKey.spendLimit
        \/ ~callsOk

\* A bridgeERC20 that does not compare the amount spent with the limit
BridgeERC20Unlimited(sender, amount, callsOk) ==
    LET sessionKey == account.sessionKeys[sender]
        reverts == \/ ~OnlyOwnerOrSession(sender)
                   \/ ~(sender = AccountAddress \/ sessionKey.canBridge)
                   \/ sender # AccountAddress
                        /\ sessionKey.spent + amount > MaxUint
                   \/ ~callsOk
    IN  /\ account' =
             [account EXCEPT
                !.sessionKeys[sender].spent =
                   IF reverts \/ sender = AccountAddress THEN @ ELSE @ + amount,
                !.lastCall = ContractCall("bridgeERC20", sender, sender, amount,
                                          reverts)]
        /\ UNCHANGED <<height, logs, stalled, monitor, ticks, observed, frames>>

BridgeERC20(sender, amount, callsOk) ==
    LET reverts == BridgeERC20Reverts(sender, amount, callsOk)
    IN  /\ account' =
             [account EXCEPT
                !.sessionKeys[sender].spent =
                   IF reverts \/ sender = AccountAddress THEN @ ELSE @ + amount,
                !.lastCall = ContractCall("bridgeERC20", sender, sender, amount,
                                          reverts)]
        /\ UNCHANGED <<height, logs, stalled, monitor, ticks, observed, frames>>

-----------------------------------------------------------------------------
(* Initial state: a freshly constructed monitor in a world where the three *)
(* source transactions are already mined.                                  *)

IdleTick ==
    [pc |-> "idle", callback |-> Undefined, fromBlock |-> 0, pending |-> <<>>,
     identifier |-> NoIdentifier]

NoResult == Thrown(Undefined)

\* An API call as an observer sees it: its arguments and its outcome.  seq
\* flips at every call, so that two equal calls in a row are two events.
ApiCall(op, chainId, txHash, callback, result) ==
    [op |-> op, chainId |-> chainId, txHash |-> txHash, callback |-> callback,
     result |-> result, seq |-> 1 - lastOp.seq]

NoParams ==
    [sourceChain |-> 0, destinationChain |-> 0, sourceTokenIn |-> Undefined,
     sourceTokenOut |-> Undefined, destTokenIn |-> Undefined,
     destTokenOut |-> Undefined]

\* What the caller of executeSwapBridgeSwap holds once the call has ended:
\* the SwapBridgeSwapResult, or the error that was thrown
NoSwapResult ==
    [kind |-> "none", error |-> Undefined, sourceSwapTx |-> Undefined,
     bridgeTx |-> Undefined, destSwapMessageHash |-> Undefined,
     estimatedTime |-> 0, hasOperations |-> FALSE, operations |-> <<>>]

IdleWorkflow ==
    [pc |-> "idle", params |-> NoParams, operations |-> <<>>, calls |-> <<>>,
     data |-> <<>>, result |-> NoSwapResult]

IdleCompletion ==
    [pc |-> "idle", tracked |-> NoSwapResult, timeoutMs |-> 0, startTime |-> 0,
     lastPoll |-> 0, seen |-> <<>>, value |-> FALSE, threw |-> FALSE]

IdleBatch ==
    [pc |-> "idle", messages |-> <<>>, outcomes |-> <<>>, settled |-> <<>>,
     result |-> <<>>, threw |-> FALSE, seq |-> 0]

IdleCodec ==
    [pc |-> "idle", input |-> HashInput(NoIdentifier, NoMessage),
     other |-> HashInput(NoIdentifier, NoMessage), hash |-> NoHash,
     otherHash |-> NoHash, log |-> Log(Undefined, <<>>, <<>>, 0, 0, Undefined),
     decoded |-> NoMessage]

IdleWaiter ==
    [pc |-> "idle", chainId |-> 0, txHash |-> Undefined, timeoutMs |-> 0,
     startTime |-> 0, lastPoll |-> 0, seen |-> <<>>, observedAt |-> 0,
     result |-> NoResult]

InitFrames ==
    /\ now = 0
    /\ batch = IdleBatch
    /\ waiter = IdleWaiter
    /\ workflow = IdleWorkflow
    /\ completion = IdleCompletion
    /\ codec = IdleCodec

InitAt(initialHeight, initialLogs) ==
    /\ InitFrames
    /\ account = [sessionKeys |-> [a \in Senders |-> NoSessionKey],
                  lastCall |-> NoCall]
    /\ height = [c \in Clients |-> initialHeight]
    /\ logs = initialLogs
    /\ isMonitoring = FALSE
    /\ monitoringIntervals = <<>>
    /\ ticks = [c \in Clients |-> [s \in 1..MaxTicks |-> IdleTick]]
    /\ lastOp = [op |-> "new", chainId |-> 0, txHash |-> Undefined,
                 callback |-> Undefined, result |-> NoResult, seq |-> 0]
    /\ lastCallback = [callback |-> Undefined, status |-> NoStatus,
                       chainId |-> 0, seq |-> 0]
    /\ reported = [t \in TxHashes |-> "none"]
    /\ pollError = 0

InitFrom(initialLogs) == InitAt(WindowSize, initialLogs)

InitMonitor == InitFrom(InitialLogs)

Init == InitMonitor /\ stalled = 0

-----------------------------------------------------------------------------
(* The world: blocks are mined, the relayer appends relay/failure events *)

IsRelayLog(l) ==
    Topic(l, 1) \in {RELAYED_MESSAGE_SIGNATURE, FAILED_RELAYED_MESSAGE_SIGNATURE}

RelayLogCount(c) == Len(SelectSeq(logs[c], IsRelayLog))

RECURSIVE SumOver(_, _)
SumOver(S, f) ==
    IF S = {} THEN 0
    ELSE LET c == CHOOSE x \in S : TRUE IN f[c] + SumOver(S \ {c}, f)

TotalRelayLogs == SumOver(Clients, [c \in Clients |-> RelayLogCount(c)])

\* The hash of every message some chain has sent to destinationChainId
SentHashesTo(destinationChainId) ==
    {CalculateMessageHash(
        CreateMessageIdentifier(c, InitialLogs[c][i], InitialLogs[c][i].blockNumber),
        DecodeSentMessage(InitialLogs[c][i])) :
     <<c, i>> \in {ci \in Clients \X (1..3) :
                     /\ ci[2] \in DOMAIN InitialLogs[ci[1]]
                     /\ Topic(InitialLogs[ci[1]][ci[2]], 1) = SENT_MESSAGE_SIGNATURE
                     /\ Topic(InitialLogs[ci[1]][ci[2]], 2) = destinationChainId}}

\* The hash of a message no chain of the model has sent
OtherHash ==
    CalculateMessageHash(
        CreateMessageIdentifier(901, InitialLogs[901][3], WindowSize),
        [DecodeSentMessage(InitialLogs[901][3]) EXCEPT !.nonce = 99])

MineBlock(c) ==
    /\ height[c] < WindowSize + MaxMined
    /\ height' = [height EXCEPT ![c] = @ + 1]
    /\ UNCHANGED <<logs, stalled, account, monitor, ticks, observed, frames>>

RelayEvent(c, signature, messageHash) ==
    /\ TotalRelayLogs < MaxRelayLogs
    /\ logs' = [logs EXCEPT ![c] =
                  Append(@, Log(MessengerAddress, <<signature, messageHash>>, <<>>,
                                height[c], Len(@),
                                RelayTxHashes[TotalRelayLogs + 1]))]
    /\ UNCHANGED <<height, stalled, account, monitor, ticks, observed, frames>>

-----------------------------------------------------------------------------
(* The monitor's API *)

Report(status) == [reported EXCEPT ![status.txHash] = status.status]

MonitorMessage(sourceChainId, txHash, receiptOk, blockOk, logsOk) ==
    LET result == MonitorMessageResult(sourceChainId, txHash, receiptOk, blockOk,
                                       logsOk)
    IN  /\ lastOp' = ApiCall("monitorMessage", sourceChainId, txHash, Undefined,
                             result)
        /\ reported' = IF result.kind = "status" THEN Report(result.status)
                       ELSE reported
        /\ UNCHANGED <<world, monitor, ticks, lastCallback, pollError, frames>>

\* A startMonitoring without the isMonitoring guard
StartMonitoringUnguarded(callback) ==
    /\ isMonitoring' = TRUE
    /\ monitoringIntervals' =
         monitoringIntervals \o
         [i \in DOMAIN ConfigChains |->
            [chainId |-> ConfigChains[i], callback |-> callback]]
    /\ lastOp' = ApiCall("startMonitoring", 0, Undefined, callback, NoResult)
    /\ UNCHANGED <<world, ticks, lastCallback, reported, pollError, frames>>

StartMonitoring(callback) ==
    /\ IF isMonitoring
       THEN UNCHANGED monitor
       ELSE /\ isMonitoring' = TRUE
            /\ monitoringIntervals' =
                 monitoringIntervals \o
                 [i \in DOMAIN ConfigChains |->
                    [chainId |-> ConfigChains[i], callback |-> callback]]
    /\ lastOp' = ApiCall("startMonitoring", 0, Undefined, callback, NoResult)
    /\ UNCHANGED <<world, ticks, lastCallback, reported, pollError, frames>>

\* A stopMonitoring that clears the flag and leaves the timers running
StopMonitoringFlagOnly ==
    /\ isMonitoring' = FALSE
    /\ lastOp' = ApiCall("stopMonitoring", 0, Undefined, Undefined, NoResult)
    /\ UNCHANGED <<world, monitoringIntervals, ticks, lastCallback, reported,
                   pollError, frames>>

StopMonitoring ==
    /\ isMonitoring' = FALSE
    /\ monitoringIntervals' = <<>>
    /\ lastOp' = ApiCall("stopMonitoring", 0, Undefined, Undefined, NoResult)
    /\ UNCHANGED <<world, ticks, lastCallback, reported, pollError, frames>>

-----------------------------------------------------------------------------
(* getMessagesStatus: one monitorMessage call per entry, all in flight at   *)
(* once; the call returns when every one of them has settled.              *)

Pending ==
    [kind |-> "pending", error |-> Undefined, status |-> NoStatus,
     probed |-> FALSE]

Null ==
    [kind |-> "null", error |-> Undefined, status |-> NoStatus, probed |-> FALSE]

\* The closure mapped over the entries, without its try/catch
SettleEntryUncaught(outcome) == outcome

\* The closure mapped over the entries: the status, null when the call raised
SettleEntry(outcome) == IF outcome.kind = "error" THEN Null ELSE outcome

\* statuses.filter(status => status !== null)
FilterNotNull(settled) ==
    LET kept == SelectSeq(settled, LAMBDA r : r.kind # "null")
    IN  [i \in DOMAIN kept |-> kept[i].status]

\* Entries a caller asks for: a message that gets relayed, a transaction
\* without SentMessage log, one whose log cannot be decoded, a chain without
\* client, and a message sent to a chain without client
MessageRefs ==
    {[chainId |-> 901, txHash |-> "0xAA"], [chainId |-> 901, txHash |-> "0xBB"],
     [chainId |-> 902, txHash |-> "0xDD"], [chainId |-> 903, txHash |-> "0xAA"],
     [chainId |-> 902, txHash |-> "0xCC"]}

Batches == UNION {[1..n -> MessageRefs] : n \in 0..MaxBatch}

GetMessagesStatus(messages) ==
    /\ batch.pc \in {"idle", "returned"}
    /\ batch' = [IdleBatch EXCEPT
                   !.pc = "running", !.messages = messages,
                   !.outcomes = [i \in DOMAIN messages |-> Pending],
                   !.settled = [i \in DOMAIN messages |-> Pending],
                   !.seq = batch.seq]
    /\ UNCHANGED <<world, monitor, ticks, observed, codec, now, waiter, workflow,
                   completion>>

\* The monitorMessage call of entry i settles
BatchMonitorMessage(i, receiptOk, blockOk, logsOk) ==
    /\ batch.pc = "running"
    /\ i \in DOMAIN batch.messages
    /\ batch.settled[i] = Pending
    /\ LET outcome == MonitorMessageResult(batch.messages[i].chainId,
                                           batch.messages[i].txHash,
                                           receiptOk, blockOk, logsOk)
       IN  batch' = [batch EXCEPT !.outcomes[i] = outcome,
                                  !.settled[i] = SettleEntry(outcome)]
    /\ UNCHANGED <<world, monitor, ticks, observed, codec, now, waiter, workflow,
                   completion>>

\* Promise.all settles: it rejects when an entry rejected, and otherwise the
\* entries that are not null are returned in the order of the input
BatchReturn ==
    /\ batch.pc = "running"
    /\ \A i \in DOMAIN batch.settled : batch.settled[i] # Pending
    /\ LET rejected == \E i \in DOMAIN batch.settled :
                          batch.settled[i].kind = "error"
       IN  batch' = [batch EXCEPT
                       !.pc = "returned",
                       !.threw = rejected,
                       !.result = IF rejected THEN <<>>
                                  ELSE FilterNotNull(batch.settled),
                       !.seq = 1 - batch.seq]
    /\ UNCHANGED <<world, monitor, ticks, observed, codec, now, waiter, workflow,
                   completion>>

-----------------------------------------------------------------------------
(* waitForRelay: poll monitorMessage until the message is relayed or has    *)
(* failed, or until the timeout has elapsed.  A status query takes some     *)
(* time; the sleep between two polls takes PollInterval.                   *)

Timeouts == 0..MaxTimeout

WaitForRelay(sourceChainId, txHash, timeoutMs) ==
    /\ waiter.pc = "idle"
    /\ waiter' = [IdleWaiter EXCEPT !.pc = "check", !.chainId = sourceChainId,
                                    !.txHash = txHash, !.timeoutMs = timeoutMs,
                                    !.startTime = now]
    /\ UNCHANGED <<world, monitor, ticks, observed, codec, now, batch, workflow,
                   completion>>

\* A loop condition that still polls when the timeout has just elapsed
WaitCheckInclusive ==
    /\ waiter.pc = "check"
    /\ waiter' = IF now - waiter.startTime <= waiter.timeoutMs
                 THEN [waiter EXCEPT !.pc = "monitorMessage"]
                 ELSE [waiter EXCEPT
                         !.pc = "ended",
                         !.result = Thrown("Timeout waiting for message relay")]
    /\ UNCHANGED <<world, monitor, ticks, observed, codec, now, batch, workflow,
                   completion>>

\* while (Date.now() - startTime < timeoutMs), and the throw after the loop
WaitCheck ==
    /\ waiter.pc = "check"
    /\ waiter' = IF now - waiter.startTime < waiter.timeoutMs
                 THEN [waiter EXCEPT !.pc = "monitorMessage"]
                 ELSE [waiter EXCEPT
                         !.pc = "ended",
                         !.result = Thrown("Timeout waiting for message relay")]
    /\ UNCHANGED <<world, monitor, ticks, observed, codec, now, batch, workflow,
                   completion>>

\* A loop body that returns whatever status the poll gave
WaitMonitorMessageAnyStatus(elapsed, receiptOk, blockOk, logsOk) ==
    /\ waiter.pc = "monitorMessage"
    /\ now' = now + elapsed
    /\ LET result == MonitorMessageResult(waiter.chainId, waiter.txHash,
                                          receiptOk, blockOk, logsOk)
       IN  waiter' = [waiter EXCEPT
                        !.pc = "ended",
                        !.lastPoll = elapsed,
                        !.seen = IF result.kind = "status"
                                 THEN Append(@, result.status.status) ELSE @,
                        !.observedAt = IF result.kind = "status" /\ waiter.seen = <<>>
                                       THEN now + elapsed ELSE @,
                        !.result = result]
    /\ UNCHANGED <<world, monitor, ticks, observed, codec, batch, workflow, completion>>

\* A loop body that catches the error of a poll and polls again after the
\* sleep
WaitMonitorMessageSwallowing(elapsed, receiptOk, blockOk, logsOk) ==
    /\ waiter.pc = "monitorMessage"
    /\ now' = now + elapsed
    /\ LET result == MonitorMessageResult(waiter.chainId, waiter.txHash,
                                          receiptOk, blockOk, logsOk)
           resolved == /\ result.kind = "status"
                       /\ result.status.status \in {"relayed", "failed"}
       IN  waiter' = [waiter EXCEPT
                        !.pc = IF resolved THEN "ended" ELSE "sleep",
                        !.lastPoll = elapsed,
                        !.seen = IF result.kind = "status"
                                 THEN Append(@, result.status.status) ELSE @,
                        !.observedAt = IF result.kind = "status" /\ waiter.seen = <<>>
                                       THEN now + elapsed ELSE @,
                        !.result = IF resolved THEN result ELSE @]
    /\ UNCHANGED <<world, monitor, ticks, observed, codec, batch, workflow, completion>>

\* The poll of the loop body settles: an error of monitorMessage ends the
\* call, a 'relayed' or 'failed' status is returned, any other status leads
\* to the sleep
WaitMonitorMessage(elapsed, receiptOk, blockOk, logsOk) ==
    /\ waiter.pc = "monitorMessage"
    /\ now' = now + elapsed
    /\ LET result == MonitorMessageResult(waiter.chainId, waiter.txHash,
                                          receiptOk, blockOk, logsOk)
           resolved == /\ result.kind = "status"
                       /\ result.status.status \in {"relayed", "failed"}
       IN  waiter' = [waiter EXCEPT
                        !.pc = IF result.kind = "error" \/ resolved
                               THEN "ended" ELSE "sleep",
                        !.lastPoll = elapsed,
                        !.seen = IF result.kind = "status"
                                 THEN Append(@, result.status.status) ELSE @,
                        !.observedAt = IF result.kind = "status" /\ waiter.seen = <<>>
                                       THEN now + elapsed ELSE @,
                        !.result = IF result.kind = "error" \/ resolved
                                   THEN result ELSE @]
    /\ UNCHANGED <<world, monitor, ticks, observed, codec, batch, workflow, completion>>

\* setTimeout(resolve, 2000)
WaitSleep ==
    /\ waiter.pc = "sleep"
    /\ now' = now + PollInterval
    /\ waiter' = [waiter EXCEPT !.pc = "check"]
    /\ UNCHANGED <<world, monitor, ticks, observed, codec, batch, workflow, completion>>

-----------------------------------------------------------------------------
(* executeSwapBridgeSwap: local swap, bridge, cross-chain swap.  Each       *)
(* provider call is a suspension point; it settles fulfilled or rejected.  *)

SwapChains == {10, 901, 902, 903}

SwapParams ==
    [sourceChain : SwapChains, destinationChain : SwapChains,
     sourceTokenIn : {"0xToken", "USDC", "DAI"}, sourceTokenOut : {"0xSuper"},
     destTokenIn : {"0xSuper"}, destTokenOut : {"0xToken", "usdc"}]

\* Workflows between a chain with a token table and a chain without, every
\* token given as an address, as a symbol the table of chain 10 knows, or as
\* a symbol no table knows
TokenParams ==
    [sourceChain : {10, 901}, destinationChain : {10, 901},
     sourceTokenIn : {"0xToken", "USDC", "DAI"},
     sourceTokenOut : {"0xSuper", "USDC", "DAI"},
     destTokenIn : {"0xSuper", "USDC", "DAI"},
     destTokenOut : {"0xToken", "usdc", "DAI"}]

Operation(type, chainId, txHash, messageHash, status) ==
    [type |-> type, chainId |-> chainId, txHash |-> txHash,
     messageHash |-> messageHash, status |-> status]

ProviderCall(method, chainId) ==
    [method |-> method, chainId |-> chainId, outcome |-> "pending"]

\* The last provider call settles
Settle(calls, outcome) == [calls EXCEPT ![Len(calls)].outcome = outcome]

\* The thrown error is all the caller gets
SwapError(message) == [NoSwapResult EXCEPT !.kind = "error", !.error = message]

SwapResult(sourceSwapTx, bridgeTx, destSwapResult, operations) ==
    [kind |-> "result", error |-> Undefined, sourceSwapTx |-> sourceSwapTx,
     bridgeTx |-> bridgeTx,
     destSwapMessageHash |-> destSwapResult.messageHash,
     estimatedTime |-> EstimatedTime, hasOperations |-> TRUE,
     operations |-> operations]

\* A catch block that marks every recorded operation failed
MarkFailedAll(operations) ==
    [i \in DOMAIN operations |-> [operations[i] EXCEPT !.status = "failed"]]

\* The catch block: pending operations are marked failed, the error is
\* thrown again
MarkFailed(operations) ==
    [i \in DOMAIN operations |->
       IF operations[i].status = "pending"
       THEN [operations[i] EXCEPT !.status = "failed"] ELSE operations[i]]

Caught(frame, message) ==
    [frame EXCEPT !.pc = "ended", !.operations = MarkFailed(@),
                  !.result = SwapError(message)]

\* A workflow that resolves the tokens of the source swap only before it
\* submits that swap
ExecuteSwapBridgeSwapLazy(params) ==
    /\ workflow.pc = "idle"
    /\ LET sourceTokenInAddr ==
               ResolveTokenAddress(params.sourceTokenIn, params.sourceChain)
           sourceTokenOutAddr ==
               ResolveTokenAddress(params.sourceTokenOut, params.sourceChain)
           frame == [IdleWorkflow EXCEPT !.params = params]
       IN  workflow' =
             IF Undefined \in {sourceTokenInAddr, sourceTokenOutAddr}
             THEN [frame EXCEPT !.pc = "ended",
                                !.result = SwapError("Token not found for chain")]
             ELSE IF EncodeSwapDataThrows(params.sourceChain)
             THEN Caught(frame, EncodeSwapDataError(params.sourceChain))
             ELSE [frame EXCEPT
                     !.pc = "executeLocal",
                     !.data = <<EncodeSwapData(params.sourceChain,
                                               sourceTokenInAddr,
                                               sourceTokenOutAddr)>>,
                     !.calls = <<ProviderCall("executeLocal",
                                              params.sourceChain)>>]
    /\ UNCHANGED <<world, monitor, ticks, observed, codec, now, batch, waiter,
                   completion>>

ExecuteSwapBridgeSwap(params) ==
    /\ workflow.pc = "idle"
    /\ LET sourceTokenInAddr ==
               ResolveTokenAddress(params.sourceTokenIn, params.sourceChain)
           sourceTokenOutAddr ==
               ResolveTokenAddress(params.sourceTokenOut, params.sourceChain)
           destTokenInAddr ==
               ResolveTokenAddress(params.destTokenIn, params.destinationChain)
           destTokenOutAddr ==
               ResolveTokenAddress(params.destTokenOut, params.destinationChain)
           frame == [IdleWorkflow EXCEPT !.params = params]
       IN  workflow' =
             IF Undefined \in {sourceTokenInAddr, sourceTokenOutAddr,
                               destTokenInAddr, destTokenOutAddr}
             THEN [frame EXCEPT !.pc = "ended",
                                !.result = SwapError("Token not found for chain")]
             ELSE IF EncodeSwapDataThrows(params.sourceChain)
             THEN Caught(frame, EncodeSwapDataError(params.sourceChain))
             ELSE [frame EXCEPT
                     !.pc = "executeLocal",
                     !.data = <<EncodeSwapData(params.sourceChain,
                                               sourceTokenInAddr,
                                               sourceTokenOutAddr)>>,
                     !.calls = <<ProviderCall("executeLocal",
                                              params.sourceChain)>>]
    /\ UNCHANGED <<world, monitor, ticks, observed, codec, now, batch, waiter,
                   completion>>

\* The local swap settles; when the workflow proceeds, the swap is recorded
\* and the bridge transfer is submitted, and otherwise the call ends
ExecuteLocalSettlesAs(fulfilled, proceed, message) ==
    /\ workflow.pc = "executeLocal"
    /\ workflow' =
         IF proceed
         THEN [workflow EXCEPT
                 !.pc = "bridgeTokens",
                 !.operations =
                    Append(@, Operation("swap", workflow.params.sourceChain,
                                        SwapTxHashes[Len(workflow.calls)],
                                        Undefined, "completed")),
                 !.calls = Append(Settle(@, IF fulfilled THEN "fulfilled"
                                            ELSE "rejected"),
                                  ProviderCall("bridgeTokens",
                                               workflow.params.sourceChain))]
         ELSE Caught([workflow EXCEPT !.calls = Settle(@, "rejected")], message)
    /\ UNCHANGED <<world, monitor, ticks, observed, codec, now, batch, waiter,
                   completion>>

\* A workflow that goes on to the bridge whatever became of the local swap
ExecuteLocalSettlesRegardless(ok) ==
    ExecuteLocalSettlesAs(
        ok /\ workflow.params.sourceChain \in ProviderClients, TRUE, Undefined)

\* portoProvider.executeLocal raises when it has no client for the chain or
\* when the submission fails
ExecuteLocalSettles(ok) ==
    ExecuteLocalSettlesAs(
        ok /\ workflow.params.sourceChain \in ProviderClients,
        ok /\ workflow.params.sourceChain \in ProviderClients,
        IF workflow.params.sourceChain \notin ProviderClients
        THEN "No client configured for chain" ELSE "execute failed")

\* A workflow that submits the bridge transfer again when it was rejected
BridgeTokensSettlesRetrying(ok) ==
    /\ workflow.pc = "bridgeTokens"
    /\ workflow' = [workflow EXCEPT
                      !.calls = Append(Settle(@, IF ok THEN "fulfilled"
                                                 ELSE "rejected"),
                                       ProviderCall("bridgeTokens",
                                                    workflow.params.sourceChain)),
                      !.pc = IF Len(workflow.calls) >= 3 THEN "ended" ELSE @]
    /\ UNCHANGED <<world, monitor, ticks, observed, codec, now, batch, waiter,
                   completion>>

\* The bridge transfer settles: fulfilled, it is recorded, the destination
\* swap is encoded and submitted as a cross-chain call; rejected, or the
\* encoding raising, the call ends
BridgeTokensSettles(ok) ==
    /\ workflow.pc = "bridgeTokens"
    /\ LET params == workflow.params
           recorded ==
               [workflow EXCEPT
                  !.operations =
                     Append(@, Operation("bridge", params.sourceChain,
                                         SwapTxHashes[Len(workflow.calls)],
                                         Undefined, "completed")),
                  !.calls = Settle(@, "fulfilled")]
       IN  workflow' =
             IF ~ok
             THEN Caught([workflow EXCEPT !.calls = Settle(@, "rejected")],
                         "bridgeERC20 failed")
             ELSE IF EncodeSwapDataThrows(params.destinationChain)
             THEN Caught(recorded, EncodeSwapDataError(params.destinationChain))
             ELSE [recorded EXCEPT
                     !.pc = "executeCrossChain",
                     !.data =
                        Append(@, EncodeSwapData(
                                     params.destinationChain,
                                     ResolveTokenAddress(params.destTokenIn,
                                                         params.destinationChain),
                                     ResolveTokenAddress(params.destTokenOut,
                                                         params.destinationChain))),
                     !.calls = Append(@, ProviderCall("executeCrossChain",
                                                      params.sourceChain))]
    /\ UNCHANGED <<world, monitor, ticks, observed, codec, now, batch, waiter,
                   completion>>

\* The cross-chain call settles and the third operation is recorded with
\* this status
ExecuteCrossChainSettlesAs(writeOk, receiptOk, receipt, status) ==
    /\ workflow.pc = "executeCrossChain"
    /\ LET destSwapResult ==
               [txHash |-> SwapTxHashes[Len(workflow.calls)],
                messageHash |-> ExtractMessageHashFromReceipt(receipt)]
           operations ==
               Append(workflow.operations,
                      Operation("cross-chain-swap",
                                workflow.params.destinationChain,
                                destSwapResult.txHash,
                                destSwapResult.messageHash, status))
       IN  workflow' =
             IF writeOk /\ receiptOk
             THEN [workflow EXCEPT
                     !.pc = "ended",
                     !.operations = operations,
                     !.calls = Settle(@, "fulfilled"),
                     !.result = SwapResult(workflow.operations[1].txHash,
                                           workflow.operations[2].txHash,
                                           destSwapResult, operations)]
             ELSE Caught([workflow EXCEPT !.calls = Settle(@, "rejected")],
                         IF writeOk THEN "waitForTransactionReceipt failed"
                         ELSE "crossChainExecute failed")
    /\ UNCHANGED <<world, monitor, ticks, observed, codec, now, batch, waiter,
                   completion>>

\* A workflow that records the cross-chain swap as completed
ExecuteCrossChainSettlesCompleted(writeOk, receiptOk, receipt) ==
    ExecuteCrossChainSettlesAs(writeOk, receiptOk, receipt, "completed")

ExecuteCrossChainSettles(writeOk, receiptOk, receipt) ==
    ExecuteCrossChainSettlesAs(writeOk, receiptOk, receipt, "pending")

-----------------------------------------------------------------------------
(* waitForCompletion: poll monitorSwapBridgeSwap until the tracked message  *)
(* is relayed or has failed, or until the timeout has elapsed.             *)

\* The results a caller tracks: what executeSwapBridgeSwap returns for a
\* workflow towards chain 901 or 902
TrackedResults ==
    {LET destSwapResult ==
             [txHash |-> SwapTxHashes[3],
              messageHash |-> ExtractMessageHashFromReceipt(receipt)]
     IN  SwapResult(SwapTxHashes[1], SwapTxHashes[2], destSwapResult,
           << Operation("swap", IF d = 901 THEN 902 ELSE 901, SwapTxHashes[1],
                        Undefined, "completed"),
              Operation("bridge", IF d = 901 THEN 902 ELSE 901, SwapTxHashes[2],
                        Undefined, "completed"),
              Operation("cross-chain-swap", d, destSwapResult.txHash,
                        destSwapResult.messageHash, "pending") >>) :
     <<d, receipt>> \in {901, 902} \X CrossChainReceipts}

\* The arguments monitorSwapBridgeSwap calls monitorMessage with: the
\* chainId of the first 'cross-chain-swap' operation, 0 when there is none,
\* and the result's destSwapMessageHash
MonitorSwapBridgeSwapCall(result) ==
    LET I == {i \in DOMAIN result.operations :
                result.operations[i].type = "cross-chain-swap"}
    IN  [sourceChainId |-> IF I = {} THEN 0
                           ELSE result.operations[CHOOSE i \in I :
                                                    \A j \in I : i <= j].chainId,
         txHash |-> result.destSwapMessageHash]

\* monitorSwapBridgeSwap: the statuses it returns, none when the result has
\* no message hash and none when monitorMessage raised
MonitorSwapBridgeSwap(result, receiptOk, blockOk, logsOk) ==
    IF result.destSwapMessageHash = Undefined
    THEN <<>>
    ELSE
      LET call == MonitorSwapBridgeSwapCall(result)
          outcome == MonitorMessageResult(call.sourceChainId, call.txHash,
                                          receiptOk, blockOk, logsOk)
      IN  IF outcome.kind = "status" THEN <<outcome.status>> ELSE <<>>

\* statuses.every(status => status.status === 'relayed')
AllCompleted(statuses) ==
    \A i \in DOMAIN statuses : statuses[i].status = "relayed"

\* statuses.some(status => status.status === 'failed')
AnyFailed(statuses) ==
    \E i \in DOMAIN statuses : statuses[i].status = "failed"

WaitForCompletion(result, timeoutMs) ==
    /\ completion.pc = "idle"
    /\ completion' = [IdleCompletion EXCEPT
                        !.pc = "check", !.tracked = result,
                        !.timeoutMs = timeoutMs, !.startTime = now]
    /\ UNCHANGED <<world, monitor, ticks, observed, codec, now, batch, waiter,
                   workflow>>

\* while (Date.now() - startTime < timeoutMs), and the return after the loop
CompletionCheck ==
    /\ completion.pc = "check"
    /\ completion' = IF now - completion.startTime < completion.timeoutMs
                     THEN [completion EXCEPT !.pc = "monitor"]
                     ELSE [completion EXCEPT !.pc = "ended", !.value = FALSE]
    /\ UNCHANGED <<world, monitor, ticks, observed, codec, now, batch, waiter,
                   workflow>>

\* The status query of the loop body settles
CompletionMonitor(elapsed, receiptOk, blockOk, logsOk) ==
    /\ completion.pc = "monitor"
    /\ now' = now + elapsed
    /\ LET statuses == MonitorSwapBridgeSwap(completion.tracked, receiptOk,
                                             blockOk, logsOk)
           polled == [completion EXCEPT
                        !.lastPoll = elapsed,
                        !.seen = Append(@, IF statuses = <<>> THEN "none"
                                           ELSE statuses[1].status)]
       IN  completion' =
             IF AllCompleted(statuses)
             THEN [polled EXCEPT !.pc = "ended", !.value = TRUE]
             ELSE IF AnyFailed(statuses)
             THEN [polled EXCEPT !.pc = "ended", !.value = FALSE]
             ELSE [polled EXCEPT !.pc = "sleep"]
    /\ UNCHANGED <<world, monitor, ticks, observed, codec, batch, waiter, workflow>>

\* setTimeout(resolve, 5000)
CompletionSleep ==
    /\ completion.pc = "sleep"
    /\ now' = now + CompletionInterval
    /\ completion' = [completion EXCEPT !.pc = "check"]
    /\ UNCHANGED <<world, monitor, ticks, observed, codec, batch, waiter, workflow>>

-----------------------------------------------------------------------------
(* The polling loop.  A timer firing starts pollChainForMessages as a new  *)
(* async frame; the frame advances one chain read at a time.               *)

InFlight(c) == {s \in 1..MaxTicks : ticks[c][s].pc # "idle"}

FreeSlot(c) == CHOOSE s \in (1..MaxTicks) \ InFlight(c) :
                  \A r \in (1..MaxTicks) \ InFlight(c) : s <= r

SetTick(c, s, tick) == [ticks EXCEPT ![c][s] = tick]

\* The loop moves to its next log, or the frame ends when none is left
NextLog(tick, pending) ==
    IF pending = <<>> THEN IdleTick
    ELSE [tick EXCEPT !.pc = "getBlock", !.pending = pending,
                      !.identifier = NoIdentifier]

TimerFire(i) ==
    /\ i \in DOMAIN monitoringIntervals
    /\ LET c == monitoringIntervals[i].chainId
       IN  /\ InFlight(c) # 1..MaxTicks
           /\ ticks' = SetTick(c, FreeSlot(c),
                               [IdleTick EXCEPT
                                  !.pc = "getBlockNumber",
                                  !.callback = monitoringIntervals[i].callback])
    /\ UNCHANGED <<world, monitor, observed, frames>>

\* A poll that waits until no tick of another chain is in flight
PollGetBlockNumberSerial(c, s, rpcOk) ==
    /\ ticks[c][s].pc = "getBlockNumber"
    /\ \A d \in Clients \ {c} : InFlight(d) = {}
    /\ ticks' = SetTick(c, s,
                   IF rpcOk
                   THEN [ticks[c][s] EXCEPT !.pc = "getLogs",
                                            !.fromBlock = height[c] - WindowSize]
                   ELSE IdleTick)
    /\ pollError' = IF rpcOk THEN pollError ELSE c
    /\ UNCHANGED <<world, monitor, lastOp, lastCallback, reported, frames>>

\* A poll whose failed height read ends the process's timers: the rejection
\* of the tick is handled nowhere
PollGetBlockNumberFatal(c, s, rpcOk) ==
    /\ ticks[c][s].pc = "getBlockNumber"
    /\ ticks' = SetTick(c, s,
                   IF rpcOk
                   THEN [ticks[c][s] EXCEPT !.pc = "getLogs",
                                            !.fromBlock = height[c] - WindowSize]
                   ELSE IdleTick)
    /\ pollError' = IF rpcOk THEN pollError ELSE c
    /\ isMonitoring' = (rpcOk /\ isMonitoring)
    /\ monitoringIntervals' = IF rpcOk THEN monitoringIntervals ELSE <<>>
    /\ UNCHANGED <<world, lastOp, lastCallback, reported, frames>>

PollGetBlockNumber(c, s, rpcOk) ==
    /\ ticks[c][s].pc = "getBlockNumber"
    /\ ticks' = SetTick(c, s,
                   IF rpcOk
                   THEN [ticks[c][s] EXCEPT !.pc = "getLogs",
                                            !.fromBlock = height[c] - WindowSize]
                   ELSE IdleTick)
    /\ pollError' = IF rpcOk THEN pollError ELSE c
    /\ UNCHANGED <<world, monitor, lastOp, lastCallback, reported, frames>>

\* A scan that takes up the first SentMessage log only
PollGetLogsFirstOnly(c, s, rpcOk) ==
    /\ ticks[c][s].pc = "getLogs"
    /\ LET sentMessageLogs ==
               SelectSeq(GetLogs(c, MessengerAddress, ticks[c][s].fromBlock),
                         LAMBDA l : Topic(l, 1) = SENT_MESSAGE_SIGNATURE)
       IN  ticks' = SetTick(c, s,
                       IF rpcOk
                       THEN NextLog(ticks[c][s],
                                    SubSeq(sentMessageLogs, 1,
                                           IF sentMessageLogs = <<>> THEN 0
                                           ELSE 1))
                       ELSE IdleTick)
    /\ pollError' = IF rpcOk THEN pollError ELSE c
    /\ UNCHANGED <<world, monitor, lastOp, lastCallback, reported, frames>>

PollGetLogs(c, s, rpcOk) ==
    /\ ticks[c][s].pc = "getLogs"
    /\ LET sentMessageLogs ==
               SelectSeq(GetLogs(c, MessengerAddress, ticks[c][s].fromBlock),
                         LAMBDA l : Topic(l, 1) = SENT_MESSAGE_SIGNATURE)
       IN  ticks' = SetTick(c, s,
                       IF rpcOk THEN NextLog(ticks[c][s], sentMessageLogs)
                       ELSE IdleTick)
    /\ pollError' = IF rpcOk THEN pollError ELSE c
    /\ UNCHANGED <<world, monitor, lastOp, lastCallback, reported, frames>>

\* A loop whose tick ends at the first log it cannot process
PollGetBlockAborting(c, s, rpcOk) ==
    /\ ticks[c][s].pc = "getBlock"
    /\ LET log == Head(ticks[c][s].pending)
       IN  ticks' = SetTick(c, s,
                       IF rpcOk /\ ~DecodeThrows(log)
                       THEN [ticks[c][s] EXCEPT
                               !.pc = "checkRelayStatus",
                               !.identifier =
                                  CreateMessageIdentifier(c, log, log.blockNumber)]
                       ELSE IdleTick)
    /\ UNCHANGED <<world, monitor, observed, frames>>

\* A loop that identifies a message by the block the chain is at, not by
\* the block of the log
PollGetBlockAtHead(c, s, rpcOk) ==
    /\ ticks[c][s].pc = "getBlock"
    /\ LET log == Head(ticks[c][s].pending)
       IN  ticks' = SetTick(c, s,
                       IF rpcOk /\ ~DecodeThrows(log)
                       THEN [ticks[c][s] EXCEPT
                               !.pc = "checkRelayStatus",
                               !.identifier =
                                  CreateMessageIdentifier(c, log, height[c] + 1)]
                       ELSE NextLog(ticks[c][s], Tail(ticks[c][s].pending)))
    /\ UNCHANGED <<world, monitor, observed, frames>>

PollGetBlock(c, s, rpcOk) ==
    /\ ticks[c][s].pc = "getBlock"
    /\ LET log == Head(ticks[c][s].pending)
       IN  ticks' = SetTick(c, s,
                       IF rpcOk /\ ~DecodeThrows(log)
                       THEN [ticks[c][s] EXCEPT
                               !.pc = "checkRelayStatus",
                               !.identifier =
                                  CreateMessageIdentifier(c, log, log.blockNumber)]
                       ELSE NextLog(ticks[c][s], Tail(ticks[c][s].pending)))
    /\ UNCHANGED <<world, monitor, observed, frames>>

\* The MessageStatus the loop builds for the log it is at, once the
\* identifier is there: hash, probe, and the probe's result taken over
PollMessageStatus(tick, rpcOk) ==
    LET log == Head(tick.pending)
        sentMessage == DecodeSentMessage(log)
        messageHash == CalculateMessageHash(tick.identifier, sentMessage)
        relayStatus == CheckRelayStatus(sentMessage.destination, messageHash,
                                        rpcOk)
    IN  MessageStatus(messageHash, tick.identifier, log.transactionHash,
                      relayStatus)

\* Subscription callbacks that throw when they are invoked
ThrowingCallbacks == {"cbThrows"}

\* A loop that invokes the callback outside the try block of its body: a
\* callback that throws ends the tick in the catch block of the poll
PollCheckRelayStatusUncaught(c, s, rpcOk) ==
    /\ ticks[c][s].pc = "checkRelayStatus"
    /\ LET tick == ticks[c][s]
           status == PollMessageStatus(tick, rpcOk)
           threw == tick.callback \in ThrowingCallbacks
       IN  /\ ticks' = SetTick(c, s, IF threw THEN IdleTick
                                     ELSE NextLog(tick, Tail(tick.pending)))
           /\ pollError' = IF threw THEN c ELSE pollError
           /\ IF tick.callback # Undefined
              THEN /\ lastCallback' = [callback |-> tick.callback,
                                       status |-> status, chainId |-> c,
                                       seq |-> 1 - lastCallback.seq]
                   /\ reported' = Report(status)
              ELSE UNCHANGED <<lastCallback, reported>>
    /\ UNCHANGED <<world, monitor, lastOp, frames>>

\* The probe settles and the callback is invoked; whether the callback
\* returns or throws (into the catch block of the loop body), the loop goes
\* on with the next log
PollCheckRelayStatus(c, s, rpcOk) ==
    /\ ticks[c][s].pc = "checkRelayStatus"
    /\ LET tick == ticks[c][s]
           status == PollMessageStatus(tick, rpcOk)
       IN  /\ ticks' = SetTick(c, s, NextLog(tick, Tail(tick.pending)))
           /\ IF tick.callback # Undefined
              THEN /\ lastCallback' = [callback |-> tick.callback,
                                       status |-> status, chainId |-> c,
                                       seq |-> 1 - lastCallback.seq]
                   /\ reported' = Report(status)
              ELSE UNCHANGED <<lastCallback, reported>>
    /\ UNCHANGED <<world, monitor, lastOp, pollError, frames>>

-----------------------------------------------------------------------------
(* The codec applied to a message: the hash of two inputs, and the decoding *)
(* of the log a message was emitted as                                     *)

HashInputs(input, other) ==
    /\ codec.pc = "idle"
    /\ codec' = [IdleCodec EXCEPT !.pc = "hash", !.input = input,
                                  !.other = other]
    /\ UNCHANGED <<world, monitor, ticks, observed, now, batch, waiter,
                   workflow, completion>>

CalculateInputHash ==
    /\ codec.pc = "hash"
    /\ codec.hash = NoHash
    /\ codec' = [codec EXCEPT
                   !.hash = CalculateMessageHashAbi(codec.input.identifier,
                                                    codec.input.message)]
    /\ UNCHANGED <<world, monitor, ticks, observed, now, batch, waiter,
                   workflow, completion>>

CalculateOtherHash ==
    /\ codec.pc = "hash"
    /\ codec.otherHash = NoHash
    /\ codec' = [codec EXCEPT
                   !.otherHash = CalculateMessageHashAbi(codec.other.identifier,
                                                         codec.other.message)]
    /\ UNCHANGED <<world, monitor, ticks, observed, now, batch, waiter,
                   workflow, completion>>

EmitSentMessage(sentMessage) ==
    /\ codec.pc = "idle"
    /\ codec' = [IdleCodec EXCEPT !.pc = "emitted",
                                  !.input.message = sentMessage,
                                  !.log = EncodeSentMessage(sentMessage)]
    /\ UNCHANGED <<world, monitor, ticks, observed, now, batch, waiter,
                   workflow, completion>>

\* The logs a client may hand to the decoder in place of the log a message
\* was emitted as: the log itself, or the log with a topic missing or added
\* or with its data cut short or pointing outside itself
Malformations ==
    {"none", "fewerTopics", "extraTopic", "noData", "senderOnly",
     "payloadCut", "farOffset", "farLength"}

Malform(log, kind) ==
    LET dataHex == SliceFrom(log.data, 2)
    IN  CASE kind = "fewerTopics" ->
               [log EXCEPT !.topics = SubSeq(@, 1, 3)]
          [] kind = "extraTopic" ->
               [log EXCEPT !.topics = Append(@, HexPrefix \o EncodeUint256(1))]
          [] kind = "noData" ->
               [log EXCEPT !.data = HexPrefix]
          [] kind = "senderOnly" ->
               [log EXCEPT !.data = HexPrefix \o Slice(dataHex, 0, 64)]
          [] kind = "payloadCut" ->
               [log EXCEPT !.data = HexPrefix \o Slice(dataHex, 0, 192)]
          [] kind = "farOffset" ->
               [log EXCEPT !.data = HexPrefix \o Slice(dataHex, 0, 64)
                                    \o EncodeUint256(4096)
                                    \o SliceFrom(dataHex, 128)]
          [] kind = "farLength" ->
               [log EXCEPT !.data = HexPrefix \o Slice(dataHex, 0, 128)
                                    \o EncodeUint256(4096)
                                    \o SliceFrom(dataHex, 192)]
          [] OTHER -> log

ReceiveLog(sentMessage, kind) ==
    /\ codec.pc = "idle"
    /\ codec' = [IdleCodec EXCEPT
                   !.pc = "emitted",
                   !.input.message = sentMessage,
                   !.log = Malform(EncodeSentMessage(sentMessage), kind)]
    /\ UNCHANGED <<world, monitor, ticks, observed, now, batch, waiter,
                   workflow, completion>>

DecodeLog ==
    /\ codec.pc = "emitted"
    /\ codec' = IF DecodeSentMessageHexThrows(codec.log)
                THEN [codec EXCEPT !.pc = "threw"]
                ELSE [codec EXCEPT !.pc = "decoded",
                                   !.decoded = DecodeSentMessageHex(codec.log)]
    /\ UNCHANGED <<world, monitor, ticks, observed, now, batch, waiter,
                   workflow, completion>>

-----------------------------------------------------------------------------
(* Specification *)

Mine == \E c \in Clients : MineBlock(c)

\* The relayer acts on the chains some message was sent to; besides those
\* messages it relays messages of chains the monitor does not watch.
Relayer ==
       \E c \in {d \in Clients : SentHashesTo(d) # {}} :
         \E signature \in {RELAYED_MESSAGE_SIGNATURE,
                           FAILED_RELAYED_MESSAGE_SIGNATURE} :
           \E messageHash \in SentHashesTo(c) \cup {OtherHash} :
             RelayEvent(c, signature, messageHash)

\* The relayer delivers, or fails to deliver, the messages the chains sent
RelaySent ==
    \E c \in {d \in Clients : SentHashesTo(d) # {}} :
      \E signature \in {RELAYED_MESSAGE_SIGNATURE,
                        FAILED_RELAYED_MESSAGE_SIGNATURE} :
        \E messageHash \in SentHashesTo(c) :
          RelayEvent(c, signature, messageHash)

Query ==
    \E sourceChainId \in ChainIds, txHash \in TxHashes :
      \E receiptOk, blockOk, logsOk \in BOOLEAN :
        MonitorMessage(sourceChainId, txHash, receiptOk, blockOk, logsOk)

Subscribe ==
    \/ \E callback \in Callbacks \cup {Undefined} : StartMonitoring(callback)
    \/ StopMonitoring

PollStep(c, s) ==
    \E rpcOk \in BOOLEAN :
      \/ PollGetBlockNumber(c, s, rpcOk)
      \/ PollGetLogs(c, s, rpcOk)
      \/ PollGetBlock(c, s, rpcOk)
      \/ PollCheckRelayStatus(c, s, rpcOk)

Poll ==
    \/ \E i \in 1..Len(ConfigChains) : TimerFire(i)
    \/ \E c \in Clients, s \in 1..MaxTicks : PollStep(c, s)

Next == Mine \/ Relayer \/ Query \/ Subscribe \/ Poll

Spec == Init /\ [][Next]_vars

\* The monitor used through its query and subscription API, no timer firing
NextCalls == Relayer \/ Query \/ Subscribe

SpecCalls == Init /\ [][NextCalls]_vars

\* One subscriber starts and stops the monitor while the timers fire
NextPoll ==
    \/ StartMonitoring("cb1")
    \/ StopMonitoring
    \/ Poll

SpecPoll == Init /\ [][NextPoll]_vars

\* One monitoring session: the monitor is started and never stopped
NextSession ==
    \/ StartMonitoring("cb1")
    \/ Poll

SpecSession == Init /\ [][NextSession]_vars

\* The same, where the reads of one chain may never return: the event loop
\* runs every timer that is due and resumes every frame whose read returned,
\* and only the reads of the other chains are sure to return.
InitStalled == InitMonitor /\ stalled \in Clients

BoundedTimerFire(i) ==
    /\ i \in DOMAIN monitoringIntervals
    /\ Cardinality(InFlight(monitoringIntervals[i].chainId)) < MaxOverlap
    /\ TimerFire(i)

NextPollFair ==
    \/ StartMonitoring("cb1")
    \/ StopMonitoring
    \/ \E i \in 1..Len(ConfigChains) : BoundedTimerFire(i)
    \/ \E c \in Clients, s \in 1..MaxTicks : PollStep(c, s)

Fairness ==
    /\ \A i \in 1..Len(ConfigChains) :
         WF_vars(ConfigChains[i] # stalled /\ BoundedTimerFire(i))
    /\ \A c \in Clients, s \in 1..MaxTicks :
         WF_vars(c # stalled /\ PollStep(c, s))

SpecPollFair == InitStalled /\ [][NextPollFair]_vars /\ Fairness

\* One monitoring session while the relayer acts, in the world where a scan
\* of 902 meets a SentMessage log that cannot be decoded between two that
\* can; the ticks of one chain follow one another
InitScan == InitFrom(ScanLogs) /\ stalled = 0

\* The timer of a chain fires when the tick before it has ended
SerialTimerFire(i) ==
    /\ i \in DOMAIN monitoringIntervals
    /\ InFlight(monitoringIntervals[i].chainId) = {}
    /\ TimerFire(i)

NextScan ==
    \/ RelaySent
    \/ StartMonitoring("cb1")
    \/ \E i \in 1..Len(ConfigChains) : SerialTimerFire(i)
    \/ \E c \in Clients, s \in 1..MaxTicks : PollStep(c, s)

SpecScan == InitScan /\ [][NextScan]_vars

\* One monitoring session over chains whose reads fail transiently: the
\* event loop runs every timer that is due and resumes every frame, and a
\* read that is attempted again and again succeeds in the end
NextRetry ==
    \/ StartMonitoring("cb1")
    \/ \E i \in 1..Len(ConfigChains) : SerialTimerFire(i)
    \/ \E c \in Clients, s \in 1..MaxTicks : PollStep(c, s)

Scheduling ==
    /\ \A i \in 1..Len(ConfigChains) : WF_vars(SerialTimerFire(i))
    /\ \A c \in Clients, s \in 1..MaxTicks : WF_vars(PollStep(c, s))

Transient ==
    /\ Scheduling
    /\ \A c \in Clients, s \in 1..MaxTicks :
         /\ SF_vars(PollGetBlockNumber(c, s, TRUE))
         /\ SF_vars(PollGetLogs(c, s, TRUE))
         /\ SF_vars(PollGetBlock(c, s, TRUE))

SpecRetry == Init /\ [][NextRetry]_vars /\ Transient

\* Direct lookups and poll scans side by side while the relayer acts: one
\* monitoring session with serial ticks, and monitorMessage calls for the
\* transactions that sent a message, whose source reads succeed
NextAgree ==
    \/ RelaySent
    \/ \E sourceChainId \in Clients, logsOk \in BOOLEAN :
         \E txHash \in {t \in TxHashes :
                          /\ HasReceipt(sourceChainId, t)
                          /\ SentMessageLogs(
                                GetTransactionReceipt(sourceChainId, t)) # <<>>} :
           MonitorMessage(sourceChainId, txHash, TRUE, TRUE, logsOk)
    \/ StartMonitoring("cb1")
    \/ \E i \in 1..Len(ConfigChains) : SerialTimerFire(i)
    \/ \E c \in Clients, s \in 1..MaxTicks : PollStep(c, s)

SpecAgree == Init /\ [][NextAgree]_vars

\* One monitoring session on chains that have just been started and grow
\* past the size of the window
InitYoung == InitAt(YoungHeight, YoungLogs) /\ stalled = 0

NextYoung ==
    \/ Mine
    \/ StartMonitoring("cb1")
    \/ \E i \in 1..Len(ConfigChains) : SerialTimerFire(i)
    \/ \E c \in Clients, s \in 1..MaxTicks : PollStep(c, s)

SpecYoung == InitYoung /\ [][NextYoung]_vars

\* One monitoring session of a subscriber whose callback throws at every
\* invocation, in the world where a scan of 902 meets three SentMessage logs;
\* the event loop runs every timer that is due and resumes every frame
NextThrow ==
    \/ StartMonitoring("cbThrows")
    \/ \E i \in 1..Len(ConfigChains) : SerialTimerFire(i)
    \/ \E c \in Clients, s \in 1..MaxTicks : PollStep(c, s)

SpecThrow == InitScan /\ [][NextThrow]_vars /\ Scheduling

\* The account contract under any sequence of authorizations and bridge
\* transfers, sent by the account itself and by its session keys, while the
\* chain grows
NextAccount ==
    \/ MineBlock(901)
    \/ \E sender \in Senders, key \in SessionKeyAddresses, expiry \in Expiries :
         \E canBridge, canExecute \in BOOLEAN, spendLimit \in SpendLimits :
           AuthorizeSessionKey(sender, key, expiry, canBridge, canExecute,
                               spendLimit)
    \/ \E sender \in Senders, amount \in 0..MaxUint, callsOk \in BOOLEAN :
         BridgeERC20(sender, amount, callsOk)

SpecAccount == Init /\ [][NextAccount]_vars

\* Batches of status queries while the relayer acts, in the world where one
\* transaction carries a SentMessage log that cannot be decoded
InitBatch == InitFrom(MalformedLogs) /\ stalled = 0

BatchStep ==
    \/ \E messages \in Batches : GetMessagesStatus(messages)
    \/ \E i \in 1..MaxBatch : \E receiptOk, blockOk, logsOk \in BOOLEAN :
         BatchMonitorMessage(i, receiptOk, blockOk, logsOk)
    \/ BatchReturn

NextBatch == RelaySent \/ BatchStep

SpecBatch == InitBatch /\ [][NextBatch]_vars

\* One waitForRelay call while the relayer acts.  The event loop resumes the call whenever
\* its poll has settled or its sleep is over.
WaitStep ==
    \/ WaitCheck
    \/ \E elapsed \in 0..MaxPollTime : \E receiptOk, blockOk, logsOk \in BOOLEAN :
         WaitMonitorMessage(elapsed, receiptOk, blockOk, logsOk)
    \/ WaitSleep

NextWait ==
    \/ RelaySent
    \/ \E sourceChainId \in ChainIds, txHash \in TxHashes :
         \E timeoutMs \in Timeouts :
           WaitForRelay(sourceChainId, txHash, timeoutMs)
    \/ WaitStep

SpecWait == Init /\ [][NextWait]_vars /\ WF_vars(WaitStep)

\* One swap-bridge-swap workflow
WorkflowStep ==
    \/ \E ok \in BOOLEAN : ExecuteLocalSettles(ok)
    \/ \E ok \in BOOLEAN : BridgeTokensSettles(ok)
    \/ \E writeOk, receiptOk \in BOOLEAN : \E receipt \in CrossChainReceipts :
         ExecuteCrossChainSettles(writeOk, receiptOk, receipt)

NextSwap ==
    \/ \E params \in SwapParams : ExecuteSwapBridgeSwap(params)
    \/ WorkflowStep

SpecSwap == Init /\ [][NextSwap]_vars

\* One workflow whose four tokens are addresses or symbols
NextTokens ==
    \/ \E params \in TokenParams : ExecuteSwapBridgeSwap(params)
    \/ WorkflowStep

SpecTokens == Init /\ [][NextTokens]_vars

\* One waitForCompletion call while the relayer acts.  The event loop
\* resumes the call whenever its status query has settled or its sleep is
\* over.
CompletionStep ==
    \/ CompletionCheck
    \/ \E elapsed \in 0..MaxPollTime : \E receiptOk, blockOk, logsOk \in BOOLEAN :
         CompletionMonitor(elapsed, receiptOk, blockOk, logsOk)
    \/ CompletionSleep

NextCompletion ==
    \/ RelaySent
    \/ \E result \in TrackedResults, timeoutMs \in Timeouts :
         WaitForCompletion(result, timeoutMs)
    \/ CompletionStep

SpecCompletion == Init /\ [][NextCompletion]_vars /\ WF_vars(CompletionStep)

\* A waitForRelay call or a waitForCompletion call while the relayer acts,
\* and status queries for the transaction of the call once it has ended
QueryAfterWait ==
    \E receiptOk, blockOk, logsOk \in BOOLEAN :
      \/ /\ waiter.pc = "ended"
         /\ MonitorMessage(waiter.chainId, waiter.txHash, receiptOk, blockOk,
                           logsOk)
      \/ /\ completion.pc = "ended"
         /\ completion.tracked.destSwapMessageHash # Undefined
         /\ MonitorMessage(completion.tracked.operations[3].chainId,
                           completion.tracked.destSwapMessageHash, receiptOk,
                           blockOk, logsOk)

NextRequery ==
    \/ RelaySent
    \/ /\ completion.pc = "idle"
       /\ \E sourceChainId \in ChainIds, txHash \in TxHashes :
            \E timeoutMs \in Timeouts :
              WaitForRelay(sourceChainId, txHash, timeoutMs)
    \/ WaitStep
    \/ /\ waiter.pc = "idle"
       /\ \E result \in TrackedResults, timeoutMs \in Timeouts :
            WaitForCompletion(result, timeoutMs)
    \/ CompletionStep
    \/ QueryAfterWait

SpecRequery == Init /\ [][NextRequery]_vars

\* The hash of two inputs, computed while the monitor is started and
\* stopped
NextHash ==
    \/ \E input \in Variants(BaseInput) : \E other \in Variants(input) :
         HashInputs(input, other)
    \/ CalculateInputHash
    \/ CalculateOtherHash
    \/ StartMonitoring("cb1")
    \/ StopMonitoring

SpecHash == Init /\ [][NextHash]_vars

\* A message is emitted as a log and the log is decoded
NextDecode ==
    \/ \E sentMessage \in SentMessages : EmitSentMessage(sentMessage)
    \/ DecodeLog

SpecDecode == Init /\ [][NextDecode]_vars

\* The decoder applied to the logs of messages as a client may hand them
\* over, well-formed or not
NextMalformed ==
    \/ \E sentMessage \in SentMessages, kind \in Malformations :
         ReceiveLog(sentMessage, kind)
    \/ DecodeLog

SpecMalformed == Init /\ [][NextMalformed]_vars

-----------------------------------------------------------------------------
(* Properties of monitorMessage *)

\* This step is a call of the API operation op
Called(op) == lastOp'.seq # lastOp.seq /\ lastOp'.op = op

\* This step is a monitorMessage call that returned a MessageStatus
MonitorMessageReturned ==
    Called("monitorMessage") /\ lastOp'.result.kind = "status"

\* The first SentMessage log of the transaction a call was made for
SentLogOf(call) ==
    SentMessageLogs(GetTransactionReceipt(call.chainId, call.txHash))[1]

HasSentLog(chainId, txHash) ==
    /\ chainId \in Clients
    /\ HasReceipt(chainId, txHash)
    /\ SentMessageLogs(GetTransactionReceipt(chainId, txHash)) # <<>>

\* The messenger log of the chain the call's message was sent to
DestinationLog(call) ==
    LET destination == DecodeSentMessage(SentLogOf(call)).destination
    IN  IF destination \in DOMAIN logs
        THEN SelectSeq(logs[destination],
                       LAMBDA l : l.address = MessengerAddress)
        ELSE <<>>

Matching(log, signature, messageHash) ==
    {i \in DOMAIN log : /\ Topic(log[i], 1) = signature
                        /\ Topic(log[i], 2) = messageHash}

\* C1: monitorMessage returns 'relayed' when the destination log holds a
\* RelayedMessage event with the computed hash, 'failed' when it holds only a
\* FailedRelayedMessage event with that hash, and 'sent' when it holds
\* neither; events with another hash do not count.
C1_StatusFollowsDestinationLog ==
    [][MonitorMessageReturned =>
         LET status == lastOp'.result.status
             log == DestinationLog(lastOp')
             relayed == Matching(log, RELAYED_MESSAGE_SIGNATURE,
                                 status.messageHash)
             failed == Matching(log, FAILED_RELAYED_MESSAGE_SIGNATURE,
                                status.messageHash)
         IN  status.status = IF relayed # {} THEN "relayed"
                             ELSE IF failed # {} THEN "failed"
                             ELSE "sent"]_vars

\* C2: relayTxHash is set exactly when the returned status is 'relayed' or
\* 'failed', and is then the transaction hash of a destination log of that
\* kind carrying the message hash; a 'sent' status has neither relayTxHash
\* nor error.
C2_RelayTxHashOfMatchingLog ==
    [][MonitorMessageReturned =>
         LET status == lastOp'.result.status
             log == DestinationLog(lastOp')
             signature == IF status.status = "relayed"
                          THEN RELAYED_MESSAGE_SIGNATURE
                          ELSE FAILED_RELAYED_MESSAGE_SIGNATURE
         IN  /\ status.relayTxHash # Undefined
                  <=> status.status \in {"relayed", "failed"}
             /\ status.status \in {"relayed", "failed"} =>
                  \E i \in Matching(log, signature, status.messageHash) :
                     log[i].transactionHash = status.relayTxHash
             /\ status.status = "sent" =>
                  status.relayTxHash = Undefined /\ status.error = Undefined]_vars

\* A call returned 'relayed' with the transaction of the second relay event,
\* the first one carrying another hash
C2_Witness ==
    /\ lastOp.op = "monitorMessage"
    /\ lastOp.result.kind = "status"
    /\ lastOp.result.status.status = "relayed"
    /\ lastOp.result.status.relayTxHash = RelayTxHashes[2]

Terminal == {"relayed", "failed", "expired"}

\* C3: once the state reported for a message is 'relayed', 'failed' or
\* 'expired', no later report for that message carries another state.
C3_ReportedStateOnlyMovesForward ==
    [][\A t \in TxHashes :
         reported[t] \in Terminal => reported'[t] = reported[t]]_vars

\* C4: monitorMessage on a transaction whose receipt holds no SentMessage log
\* fails with the not-found error (unless reading the receipt itself failed),
\* probes no destination chain and leaves the monitor's state as it was.
C4_NoSentMessageIsNotFound ==
    [][(/\ Called("monitorMessage")
        /\ lastOp'.chainId \in Clients
        /\ HasReceipt(lastOp'.chainId, lastOp'.txHash)
        /\ ~HasSentLog(lastOp'.chainId, lastOp'.txHash))
       => /\ lastOp'.result.kind = "error"
          /\ lastOp'.result.error # "getTransactionReceipt failed"
               => lastOp'.result.error
                    = "No SentMessage events found in transaction"
          /\ ~lastOp'.result.probed
          /\ UNCHANGED <<isMonitoring, monitoringIntervals, ticks, logs>>]_vars

\* The not-found error was raised while the monitor was running
C4_Witness ==
    /\ lastOp.op = "monitorMessage"
    /\ lastOp.txHash = "0xBB"
    /\ lastOp.result.error = "No SentMessage events found in transaction"
    /\ isMonitoring
    /\ Len(monitoringIntervals) = Len(ConfigChains)

\* C5: monitorMessage fails with a configuration error when the source chain
\* has no client, and also when the destination chain decoded from the
\* sent-event has no client.
C5_MissingClientIsAnError ==
    [][Called("monitorMessage") =>
         /\ lastOp'.chainId \notin Clients =>
              /\ lastOp'.result.kind = "error"
              /\ lastOp'.result.error = "No client configured for chain"
         /\ (/\ HasSentLog(lastOp'.chainId, lastOp'.txHash)
             /\ DecodeSentMessage(SentLogOf(lastOp')).destination \notin Clients)
            => lastOp'.result.kind = "error"]_vars

-----------------------------------------------------------------------------
(* Properties of getMessagesStatus *)

\* This step is the return of a getMessagesStatus call
BatchReturned == batch'.seq # batch.seq

\* The statuses of the entries whose monitorMessage call returned one
StatusesOfSucceeded(outcomes) ==
    LET succeeded == SelectSeq(outcomes, LAMBDA r : r.kind = "status")
    IN  [i \in DOMAIN succeeded |-> succeeded[i].status]

\* C11: getMessagesStatus never throws; it returns, in the order of the input,
\* the statuses of exactly the entries whose monitorMessage call succeeded, so
\* N entries of which k fail give N - k statuses.
C11_BatchDropsFailedEntries ==
    [][BatchReturned =>
         LET failed == {i \in DOMAIN batch'.outcomes :
                          batch'.outcomes[i].kind = "error"}
         IN  /\ ~batch'.threw
             /\ batch'.result = StatusesOfSucceeded(batch'.outcomes)
             /\ Len(batch'.result)
                  = Len(batch'.messages) - Cardinality(failed)]_vars

\* A batch of two returned one status: its first entry failed to decode and
\* its second entry was found relayed
C11_Witness ==
    /\ batch.pc = "returned"
    /\ Len(batch.messages) = 2
    /\ batch.outcomes[1].error = "Cannot convert undefined to a BigInt"
    /\ Len(batch.result) = 1
    /\ batch.result[1].status = "relayed"
    /\ batch.result[1].txHash = batch.messages[2].txHash

-----------------------------------------------------------------------------
(* Properties of waitForRelay *)

WaitRunning == waiter.pc \notin {"idle", "ended"}

\* This step ends the waitForRelay call
WaitEnded == waiter.pc # "ended" /\ waiter'.pc = "ended"

\* The destination log holds a relay or failure event for the message sent
\* in the transaction the call waits for
ResolvingEventExists ==
    /\ HasSentLog(waiter.chainId, waiter.txHash)
    /\ LET log == DestinationLog(waiter)
           sentLog == SentLogOf(waiter)
           messageHash ==
               CalculateMessageHash(
                   CreateMessageIdentifier(waiter.chainId, sentLog,
                                           sentLog.blockNumber),
                   DecodeSentMessage(sentLog))
       IN  \/ Matching(log, RELAYED_MESSAGE_SIGNATURE, messageHash) # {}
           \/ Matching(log, FAILED_RELAYED_MESSAGE_SIGNATURE, messageHash) # {}

\* C12: a waitForRelay call ends; it starts a poll only while the elapsed
\* time is below the timeout; and when no resolving event exists and no poll
\* raised, it ends with the timeout error, after the timeout and less than a
\* poll interval plus the time of its last poll later.
C12_WaitForRelayTimesOut ==
    /\ WaitRunning ~> (waiter.pc = "ended")
    /\ [][/\ (waiter.pc # "monitorMessage" /\ waiter'.pc = "monitorMessage")
              => now - waiter.startTime < waiter.timeoutMs
          /\ (WaitEnded /\ ~ResolvingEventExists' /\ waiter.pc = "check")
              => LET elapsed == now' - waiter'.startTime
                 IN  /\ waiter'.result
                          = Thrown("Timeout waiting for message relay")
                     /\ elapsed >= waiter'.timeoutMs
                     /\ elapsed < waiter'.timeoutMs + PollInterval
                                    + waiter'.lastPoll
          /\ (WaitEnded /\ ~ResolvingEventExists')
              => \/ waiter.pc = "check"
                 \/ waiter'.result.kind = "error"]_vars

\* The call timed out after two polls that found the message still 'sent',
\* the second of which took longer than the poll interval
C12_Witness ==
    /\ waiter.pc = "ended"
    /\ waiter.result = Thrown("Timeout waiting for message relay")
    /\ waiter.seen = <<"sent", "sent">>
    /\ waiter.lastPoll > PollInterval
    /\ now - waiter.startTime > waiter.timeoutMs

\* C13: waitForRelay returns a status only when that status is 'relayed' or
\* 'failed', and then it is the first such status one of its polls saw: every
\* poll before it saw 'sent'.
C13_WaitForRelayReturnsFirstResolved ==
    [][(WaitEnded /\ waiter'.result.kind = "status") =>
         LET seen == waiter'.seen
         IN  /\ waiter'.result.status.status \in {"relayed", "failed"}
             /\ seen[Len(seen)] = waiter'.result.status.status
             /\ \A i \in 1..(Len(seen) - 1) :
                   seen[i] \notin {"relayed", "failed"}]_vars

\* The call returned 'failed' from its second poll
C13_Witness ==
    /\ waiter.pc = "ended"
    /\ waiter.result.kind = "status"
    /\ waiter.result.status.status = "failed"
    /\ waiter.seen = <<"sent", "failed">>

-----------------------------------------------------------------------------
(* Properties of executeSwapBridgeSwap *)

\* This step ends the executeSwapBridgeSwap call
WorkflowEnded == workflow.pc # "ended" /\ workflow'.pc = "ended"

ProviderCallOrder == <<"executeLocal", "bridgeTokens", "executeCrossChain">>

Completed(operations) ==
    {i \in DOMAIN operations : operations[i].status = "completed"}

Fulfilled(calls) == {i \in DOMAIN calls : calls[i].outcome = "fulfilled"}

\* C14: once the source-swap submission has been rejected, the call has
\* ended with an error, the local swap is the only provider call ever made
\* and no operation is recorded as completed.
C14_FailedSourceSwapHaltsWorkflow ==
    (workflow.calls # <<>> /\ workflow.calls[1].outcome = "rejected") =>
        /\ workflow.pc = "ended"
        /\ workflow.result.kind = "error"
        /\ Len(workflow.calls) = 1
        /\ Completed(workflow.operations) = {}

\* The submission of the local swap was rejected by the chain
C14_Witness ==
    /\ workflow.pc = "ended"
    /\ Len(workflow.calls) = 1
    /\ workflow.calls[1].outcome = "rejected"
    /\ workflow.result.error = "execute failed"

\* C15: when a step fails, the caller receives with the error the list of
\* operations recorded before the failure, one per step that had been
\* submitted successfully.
C15_ErrorCarriesPartialOperations ==
    [][(WorkflowEnded /\ workflow'.result.kind = "error") =>
         /\ Len(workflow'.operations) = Cardinality(Fulfilled(workflow'.calls))
         /\ workflow'.result.hasOperations
         /\ workflow'.result.operations = workflow'.operations]_vars

\* C16: the provider calls made so far are a prefix of local swap, bridge,
\* cross-chain call; every call but the last has been fulfilled, so nothing
\* follows a rejected call and no call is made twice; a call is pending
\* exactly while the workflow waits for it.
C16_ProviderCallsArePrefix ==
    LET calls == workflow.calls
    IN  /\ Len(calls) <= Len(ProviderCallOrder)
        /\ \A i \in DOMAIN calls :
             /\ calls[i].method = ProviderCallOrder[i]
             /\ i < Len(calls) => calls[i].outcome = "fulfilled"
        /\ \A i \in DOMAIN calls :
             calls[i].outcome = "pending"
               <=> (i = Len(calls) /\ workflow.pc = calls[i].method)

\* The bridge transfer was rejected after the local swap: two calls, ended
C16_Witness ==
    /\ workflow.pc = "ended"
    /\ Len(workflow.calls) = 2
    /\ workflow.calls[2].outcome = "rejected"
    /\ Len(workflow.operations) = 1

\* C17: a successful call returns three operations: swap on the source
\* chain, completed; bridge on the source chain, completed; cross-chain-swap
\* on the destination chain, pending; sourceSwapTx and bridgeTx are the
\* txHash of the first and second, destSwapMessageHash is the messageHash of
\* the third.
C17_SuccessfulResultShape ==
    [][(WorkflowEnded /\ workflow'.result.kind = "result") =>
         LET result == workflow'.result
             operations == result.operations
             params == workflow'.params
         IN  /\ Len(operations) = 3
             /\ [i \in 1..3 |-> operations[i].type]
                  = <<"swap", "bridge", "cross-chain-swap">>
             /\ [i \in 1..3 |-> operations[i].chainId]
                  = <<params.sourceChain, params.sourceChain,
                      params.destinationChain>>
             /\ [i \in 1..3 |-> operations[i].status]
                  = <<"completed", "completed", "pending">>
             /\ result.sourceSwapTx = operations[1].txHash
             /\ result.bridgeTx = operations[2].txHash
             /\ result.destSwapMessageHash = operations[3].messageHash
             /\ operations[1].txHash # operations[2].txHash]_vars

\* A workflow from 901 to 902 succeeded and its receipt carried a message hash
C17_Witness ==
    /\ workflow.pc = "ended"
    /\ workflow.result.kind = "result"
    /\ workflow.params.sourceChain = 901
    /\ workflow.params.destinationChain = 902
    /\ workflow.result.destSwapMessageHash = "0xAA"

\* The router of this chain is missing or of a type that cannot be encoded
RouterUnusable(chainId) == EncodeSwapDataThrows(chainId)

ConfigurationErrors ==
    {"No router config for chain", "Unsupported DEX type",
     "Token not found for chain"}

\* C20: when the router of the source chain or of the destination chain is
\* unsupported or not configured, executeSwapBridgeSwap ends with a
\* configuration error and has made no provider call at all.
C20_UnusableRouterFailsFast ==
    [][(/\ WorkflowEnded
        /\ \/ RouterUnusable(workflow'.params.sourceChain)
           \/ RouterUnusable(workflow'.params.destinationChain))
       => /\ workflow'.result.kind = "error"
          /\ workflow'.result.error \in ConfigurationErrors
          /\ workflow'.calls = <<>>]_vars

-----------------------------------------------------------------------------
(* Properties of waitForCompletion *)

CompletionRunning == completion.pc \notin {"idle", "ended"}

\* This step ends the waitForCompletion call
CompletionEnded == completion.pc # "ended" /\ completion'.pc = "ended"

\* What the last status query of the call saw: a state, or "none"
LastSeen(frame) ==
    IF frame.seen = <<>> THEN "none" ELSE frame.seen[Len(frame.seen)]

\* C18: waitForCompletion returns true only when its last status query saw
\* the message 'relayed'; it returns false when that query saw it 'failed'
\* and when the timeout elapsed.
C18_TrueOnlyWhenRelayed ==
    [][CompletionEnded =>
         /\ completion'.value => (completion.pc = "monitor"
                                  /\ LastSeen(completion') = "relayed")
         /\ (completion.pc = "monitor" /\ LastSeen(completion') = "failed")
              => ~completion'.value
         /\ completion.pc = "check" => ~completion'.value]_vars

\* C19: a waitForCompletion call ends and does not throw; it starts a status
\* query only while the elapsed time is below the timeout; and when none of
\* its queries saw the message relayed or failed, it returns false, and not
\* before the timeout has elapsed.
C19_CompletionEndsWithBoolean ==
    /\ CompletionRunning ~> (completion.pc = "ended")
    /\ [][/\ ~completion'.threw
          /\ (completion.pc # "monitor" /\ completion'.pc = "monitor")
              => now - completion.startTime < completion.timeoutMs
          /\ (/\ CompletionEnded
              /\ \A i \in DOMAIN completion'.seen :
                    completion'.seen[i] \notin {"relayed", "failed"})
              => /\ ~completion'.value
                 /\ now' - completion'.startTime >= completion'.timeoutMs]_vars

-----------------------------------------------------------------------------
(* Properties of the subscription API and the polling loop *)

\* C6: startMonitoring while monitoring is running adds no timer and leaves
\* the timers, with the callback they were created for, as they are; after
\* any startMonitoring there is one timer per configured chain.
C6_StartMonitoringIdempotent ==
    [][Called("startMonitoring") =>
         /\ isMonitoring => UNCHANGED <<isMonitoring, monitoringIntervals>>
         /\ Len(monitoringIntervals') = Len(ConfigChains)]_vars

\* startMonitoring(cb2) was called while the timers of cb1 were running
C6_Witness ==
    /\ lastOp.op = "startMonitoring"
    /\ lastOp.callback = "cb2"
    /\ isMonitoring
    /\ Len(monitoringIntervals) = Len(ConfigChains)
    /\ \A i \in DOMAIN monitoringIntervals :
         monitoringIntervals[i].callback = "cb1"

\* C7: stopMonitoring leaves no timer and isMonitoring false; when monitoring
\* is not running it changes nothing; a startMonitoring after it creates
\* exactly one timer per configured chain.
C7_StopMonitoringCancelsTimers ==
    [][/\ Called("stopMonitoring") =>
            /\ ~isMonitoring' /\ monitoringIntervals' = <<>>
            /\ ~isMonitoring => UNCHANGED <<monitor, ticks>>
       /\ (Called("startMonitoring") /\ ~isMonitoring) =>
            /\ Len(monitoringIntervals') = Len(ConfigChains)
            /\ \A i \in DOMAIN ConfigChains :
                 monitoringIntervals'[i].chainId = ConfigChains[i]]_vars

\* stopMonitoring was called after the timers had fired
C7_Witness ==
    /\ lastOp.op = "stopMonitoring"
    /\ ~isMonitoring
    /\ monitoringIntervals = <<>>
    /\ \E c \in Clients : InFlight(c) # {}

\* C8: a callback is never invoked while monitoring is stopped.
C8_NoCallbackAfterStop ==
    [][lastCallback'.seq # lastCallback.seq => isMonitoring]_vars

\* C9: at most one poll tick of a chain is in flight at any time.
C9_OneTickInFlightPerChain ==
    \A c \in Clients : Cardinality(InFlight(c)) <= 1

\* C10: whatever happens to the ticks of the stalled chain, every tick of
\* another chain runs to its end, and the timer of another chain fires as
\* long as monitoring is running.
C10_OtherChainsNotBlocked ==
    \A c \in Clients :
      /\ \A s \in 1..MaxTicks :
           (c # stalled /\ ticks[c][s].pc # "idle") ~> (ticks[c][s].pc = "idle")
      /\ (c # stalled /\ isMonitoring) ~> (~isMonitoring \/ InFlight(c) # {})

\* A tick of the stalled chain still waits for its first read, and a tick of
\* another chain has delivered a callback and runs again
C10_Witness ==
    /\ stalled \in Clients
    /\ \E s \in 1..MaxTicks : ticks[stalled][s].pc = "getBlockNumber"
    /\ lastCallback.chainId \in Clients \ {stalled}
    /\ \E s \in 1..MaxTicks :
         ticks[lastCallback.chainId][s].pc = "checkRelayStatus"

\* C21: within one monitoring session the callback is invoked at most once
\* for a message hash and state: a callback never repeats the state that
\* the last callback for the same message delivered.
C21_CallbackOncePerMessageState ==
    [][lastCallback'.seq # lastCallback.seq =>
         reported[lastCallback'.status.txHash] # lastCallback'.status.status]_vars

-----------------------------------------------------------------------------
(* Properties of the chain reads of monitorMessage *)

\* The first chain read of a monitorMessage call that fails, "none" when
\* every read the call reaches succeeds
FailedRead(sourceChainId, txHash, receiptOk, blockOk, logsOk) ==
    IF sourceChainId \notin Clients THEN "none"
    ELSE IF ~receiptOk THEN "getTransactionReceipt"
    ELSE IF ~HasSentLog(sourceChainId, txHash) THEN "none"
    ELSE LET log == SentMessageLogs(
                        GetTransactionReceipt(sourceChainId, txHash))[1]
         IN  IF DecodeThrows(log) THEN "none"
             ELSE IF ~blockOk THEN "getBlock"
             ELSE IF DecodeSentMessage(log).destination \notin Clients
             THEN "none"
             ELSE IF ~logsOk THEN "getLogs"
             ELSE "none"

\* C29: a monitorMessage call one of whose chain reads (receipt, block,
\* destination log scan) fails ends with an error and returns no status.
C29_RpcFailureSurfacesAsError ==
    [][\A sourceChainId \in ChainIds, txHash \in TxHashes :
         \A receiptOk, blockOk, logsOk \in BOOLEAN :
           /\ MonitorMessage(sourceChainId, txHash, receiptOk, blockOk, logsOk)
           /\ FailedRead(sourceChainId, txHash, receiptOk, blockOk, logsOk)
                # "none"
           => lastOp'.result.kind = "error"]_vars

-----------------------------------------------------------------------------
(* Properties of the errors of waitForRelay *)

\* This step ends a poll of waitForRelay that gave no status: the list of
\* the states seen grows with every status a poll returns
PollRaised ==
    /\ waiter.pc = "monitorMessage"
    /\ waiter'.pc # "monitorMessage"
    /\ waiter'.seen = waiter.seen

\* C30: when a poll of waitForRelay raises, the call ends at that step with
\* the error monitorMessage raised, whatever time is left before the
\* timeout, and an ended call polls no more.
C30_WaitForRelayPropagatesPollError ==
    [][/\ PollRaised =>
            /\ waiter'.pc = "ended"
            /\ waiter'.result.kind = "error"
            /\ \E receiptOk, blockOk, logsOk \in BOOLEAN :
                 waiter'.result =
                    MonitorMessageResult(waiter.chainId, waiter.txHash,
                                         receiptOk, blockOk, logsOk)
       /\ waiter.pc = "ended" => waiter' = waiter]_vars

\* A poll saw 'sent', the next poll raised on its block read, and the call
\* ended with that error before the timeout had elapsed
C30_Witness ==
    /\ waiter.pc = "ended"
    /\ waiter.seen = <<"sent">>
    /\ waiter.result = Thrown("getBlock failed")
    /\ now - waiter.startTime < waiter.timeoutMs

-----------------------------------------------------------------------------
(* Properties of the operations list of executeSwapBridgeSwap *)

\* C26: a recorded operation changes in nothing but its status, a status
\* changes only from 'pending' to 'completed' or 'failed', a 'completed'
\* operation stays as it is, also when the failure handler runs, and once
\* an operation is 'failed' the list no longer changes.
C26_OperationStatusMovesForward ==
    [][LET old == workflow.operations
           new == workflow'.operations
       IN  /\ Len(new) >= Len(old)
           /\ \A i \in DOMAIN old :
                /\ new[i] = [old[i] EXCEPT !.status = new[i].status]
                /\ new[i].status # old[i].status =>
                     /\ old[i].status = "pending"
                     /\ new[i].status \in {"completed", "failed"}
                /\ old[i].status = "completed" => new[i] = old[i]
           /\ (\E i \in DOMAIN old : old[i].status = "failed") => new = old]_vars

\* The failure handler ran after the swap and the bridge were recorded, and
\* both are still 'completed'
C26_Witness ==
    /\ workflow.pc = "ended"
    /\ workflow.result.kind = "error"
    /\ Len(workflow.operations) = 2
    /\ \A i \in DOMAIN workflow.operations :
         workflow.operations[i].status = "completed"

-----------------------------------------------------------------------------
(* Properties of the scan of pollChainForMessages *)

\* This step resumes tick s of chain c at the read named by pc
TickStep(c, s, pc) == ticks[c][s].pc = pc /\ ticks'[c][s] # ticks[c][s]

\* The tick goes on with the logs that follow the one it handled
GoesOnWithTail(c, s) ==
    ticks'[c][s] = NextLog(ticks[c][s], Tail(ticks[c][s].pending))

\* C23: a log the tick cannot decode or cannot read the block of is left
\* out without a callback and the tick goes on with the logs that follow
\* it; a log it could decode and identify is probed and delivered, and the
\* tick goes on with the logs that follow it.
C23_BadLogDoesNotAbortScan ==
    [][\A c \in Clients, s \in 1..MaxTicks :
         /\ TickStep(c, s, "getBlock") =>
              /\ UNCHANGED <<lastCallback, reported>>
              /\ IF DecodeThrows(Head(ticks[c][s].pending))
                 THEN GoesOnWithTail(c, s)
                 ELSE \/ GoesOnWithTail(c, s)
                      \/ /\ ticks'[c][s].pc = "checkRelayStatus"
                         /\ ticks'[c][s].pending = ticks[c][s].pending
         /\ TickStep(c, s, "checkRelayStatus") =>
              /\ GoesOnWithTail(c, s)
              /\ ticks[c][s].callback # Undefined =>
                   /\ lastCallback'.seq # lastCallback.seq
                   /\ lastCallback'.status.txHash =
                        Head(ticks[c][s].pending).transactionHash]_vars

\* The first log of 902 has been delivered, and a tick that met the log of
\* 0xDD that cannot be decoded has delivered the log after it
C23_Witness ==
    /\ reported["0xCC"] # "none"
    /\ lastCallback.chainId = 902
    /\ lastCallback.status.txHash = "0xDD"
    /\ lastCallback.status.identifier.logIndex = 1

\* The SentMessage logs of the messenger of chain c from block fromBlock on
SentLogsInWindow(c, fromBlock) ==
    SelectSeq(logs[c], LAMBDA l : /\ l.address = MessengerAddress
                                  /\ l.blockNumber >= fromBlock
                                  /\ Topic(l, 1) = SENT_MESSAGE_SIGNATURE)

\* C28: a scan that succeeds takes up every SentMessage log of the chain's
\* messenger in the window of the tick; a log of the scan that decodes and
\* whose block is read goes to the probe; and the probe is followed by one
\* callback that carries the hash of the message, the transaction of the
\* log and the state the probe found.
C28_EveryScannedLogIsDelivered ==
    [][\A c \in Clients, s \in 1..MaxTicks :
         LET tick == ticks[c][s]
             log == Head(tick.pending)
             sentMessage == DecodeSentMessage(log)
             messageHash ==
                 CalculateMessageHash(
                     CreateMessageIdentifier(c, log, log.blockNumber), sentMessage)
         IN  /\ TickStep(c, s, "getLogs") /\ ticks'[c][s].pc # "idle" =>
                  /\ ticks'[c][s].pc = "getBlock"
                  /\ ticks'[c][s].pending = SentLogsInWindow(c, tick.fromBlock)
             /\ /\ TickStep(c, s, "getBlock")
                /\ ticks'[c][s].pc = "checkRelayStatus"
                => /\ ~DecodeThrows(log)
                   /\ ticks'[c][s].pending = tick.pending
             /\ TickStep(c, s, "checkRelayStatus") /\ tick.callback # Undefined =>
                  /\ lastCallback'.seq # lastCallback.seq
                  /\ lastCallback'.callback = tick.callback
                  /\ lastCallback'.status.messageHash = messageHash
                  /\ lastCallback'.status.txHash = log.transactionHash
                  /\ \E rpcOk \in BOOLEAN :
                       lastCallback'.status =
                          MessageStatus(messageHash, tick.identifier,
                                        log.transactionHash,
                                        CheckRelayStatus(sentMessage.destination,
                                                         messageHash, rpcOk))]_vars

\* The scan of 902 took up its three SentMessage logs, and the callback got
\* the message of 0xAA with the state 'relayed' its probe found
C28_Witness ==
    /\ \E s \in 1..MaxTicks : Len(ticks[902][s].pending) = 3
    /\ lastCallback.callback = "cb1"
    /\ lastCallback.status.txHash = "0xAA"
    /\ lastCallback.status.status = "relayed"
    /\ lastCallback.status.relayTxHash \in
         {RelayTxHashes[i] : i \in DOMAIN RelayTxHashes}

-----------------------------------------------------------------------------
(* Properties of the expiry of a message *)

\* C22: a status produced for a message that no relay or failure event
\* exists for is 'expired' when the configured expiry has passed since the
\* message was first observed, and 'sent' before that.
C22_ExpiredAfterMessageExpiry ==
    [][/\ waiter.pc = "monitorMessage"
       /\ Len(waiter'.seen) > Len(waiter.seen)
       /\ ~ResolvingEventExists
       => LastSeen(waiter') =
             IF now' - waiter'.observedAt >= MessageExpiry
             THEN "expired" ELSE "sent"]_vars

-----------------------------------------------------------------------------
(* Properties of a message after a timeout *)

\* The call of this step asks for the transaction a waitForRelay call or a
\* waitForCompletion call has given up on
AskedAfterTimeout ==
    \/ /\ waiter.pc = "ended"
       /\ waiter.result = Thrown("Timeout waiting for message relay")
       /\ lastOp'.chainId = waiter.chainId
       /\ lastOp'.txHash = waiter.txHash
    \/ /\ completion.pc = "ended"
       /\ ~completion.value
       /\ LastSeen(completion) # "failed"
       /\ lastOp'.chainId = completion.tracked.operations[3].chainId
       /\ lastOp'.txHash = completion.tracked.destSwapMessageHash

\* The destination log holds a RelayedMessage event for the message of the
\* transaction the call of this step asks for
RelayedEventExists ==
    /\ HasSentLog(lastOp'.chainId, lastOp'.txHash)
    /\ Matching(DestinationLog(lastOp'), RELAYED_MESSAGE_SIGNATURE,
                lastOp'.result.status.messageHash) # {}

\* C27: the steps of waitForRelay and of waitForCompletion change nothing
\* of the monitor, and a monitorMessage that returns a status for the
\* transaction of a call that timed out has probed the destination chain
\* and says 'relayed' when the relay event is in the destination log.
C27_TimeoutLeavesMessageTrackable ==
    [][/\ waiter' # waiter \/ completion' # completion =>
            UNCHANGED <<world, monitor, ticks, observed>>
       /\ MonitorMessageReturned /\ AskedAfterTimeout /\ RelayedEventExists =>
            /\ lastOp'.result.probed
            /\ lastOp'.result.status.status = "relayed"]_vars

-----------------------------------------------------------------------------
(* Properties of the codec *)

\* C24: the hashes computed for two inputs are equal exactly when the
\* inputs are equal, whatever the state of the monitor at either
\* computation: equal inputs give one hash, and inputs that differ in one
\* field of the message or of the identifier give two.
C24_HashDeterministicAndInjective ==
    codec.hash # NoHash /\ codec.otherHash # NoHash =>
        (codec.hash = codec.otherHash <=> codec.input = codec.other)

\* Two inputs whose payloads differ only in a trailing zero byte were
\* hashed while monitoring was running, and the hashes differ
C24_Witness ==
    /\ isMonitoring
    /\ codec.pc = "hash"
    /\ codec.input.message.message = HexPrefix \o <<10, 11>>
    /\ codec.other = [codec.input EXCEPT
                        !.message.message = HexPrefix \o <<10, 11, 0, 0>>]
    /\ codec.hash # NoHash
    /\ codec.otherHash # NoHash
    /\ codec.hash # codec.otherHash

\* C25: decoding the log a message was emitted as gives the message back,
\* equal in destination, target, nonce, sender and payload.
C25_DecodeRoundTrips ==
    codec.pc = "decoded" => codec.decoded = codec.input.message

\* The message with the largest destination and nonce and the empty
\* payload was emitted and decoded
C25_Witness ==
    /\ codec.pc = "decoded"
    /\ codec.input.message.destination = MaxDestination
    /\ codec.input.message.nonce = MaxNonce
    /\ codec.input.message.message = HexPrefix
    /\ codec.decoded.message = HexPrefix
    /\ Len(codec.log.topics) = 4

-----------------------------------------------------------------------------
(* Properties of the destination probe's precedence *)

\* C31: the probe answers one of relayed, failed or unresolved (a status that
\* stays 'sent'); it answers 'relayed' whenever the destination log holds a
\* RelayedMessage event with the hash, whether or not a FailedRelayedMessage
\* event with the hash precedes or follows it, and 'failed' only when such a
\* failure event exists and no RelayedMessage event does.
C31_ProbePrefersRelayed ==
    [][MonitorMessageReturned /\ lastOp'.result.probed =>
         LET status == lastOp'.result.status
             log == DestinationLog(lastOp')
             relayed == Matching(log, RELAYED_MESSAGE_SIGNATURE,
                                 status.messageHash) # {}
             failed == Matching(log, FAILED_RELAYED_MESSAGE_SIGNATURE,
                                status.messageHash) # {}
         IN  /\ status.status \in {"relayed", "failed", "sent"}
             /\ relayed => status.status = "relayed"
             /\ status.status = "failed" => failed /\ ~relayed]_vars

-----------------------------------------------------------------------------
(* Properties of a failing poll tick *)

\* This step ends the tick in slot s of chain c at a failed read of the
\* chain height or of the logs
TickFails(c, s) ==
    /\ ticks[c][s].pc \in {"getBlockNumber", "getLogs"}
    /\ ticks'[c][s].pc = "idle"
    /\ pollError' = c
    /\ ticks[c][s].pc = "getLogs" =>
         SentLogsInWindow(c, ticks[c][s].fromBlock) # <<>>

\* C32: a poll tick that fails at its height read or its log read ends
\* there and changes neither isMonitoring nor the timers nor any other tick;
\* after it the next firing of the same chain's timer runs a new poll that
\* reaches the delivery of a callback, and that delivery takes place.
C32_FailedTickDoesNotStopMonitoring ==
    /\ [][\A c \in Clients, s \in 1..MaxTicks :
            TickFails(c, s) =>
              /\ UNCHANGED <<monitor, lastCallback, reported>>
              /\ ticks' = SetTick(c, s, IdleTick)]_vars
    /\ \A c \in Clients :
         (pollError = c /\ isMonitoring)
            ~> (\E s \in 1..MaxTicks : /\ ticks[c][s].pc = "checkRelayStatus"
                                       /\ ticks[c][s].callback = "cb1")
    /\ [][\A c \in Clients, s \in 1..MaxTicks :
            (ticks[c][s].pc = "checkRelayStatus" /\ ticks'[c][s] # ticks[c][s]) =>
              /\ lastCallback'.seq # lastCallback.seq
              /\ lastCallback'.chainId = c
              /\ lastCallback'.callback = ticks[c][s].callback]_vars

\* The last poll error logged is of chain 901, whose tick ended there; the
\* monitor is running with both timers, and a later tick of 901 has passed
\* its two reads and is about to deliver the status of the message of 0xAA
C32_Witness ==
    /\ pollError = 901
    /\ isMonitoring
    /\ Len(monitoringIntervals) = Len(ConfigChains)
    /\ \E s \in 1..MaxTicks :
         /\ ticks[901][s].pc = "checkRelayStatus"
         /\ Head(ticks[901][s].pending).transactionHash = "0xAA"

-----------------------------------------------------------------------------
(* Properties of the decoder on malformed logs *)

\* The data of a SentMessage log is laid out as its ABI says: a sender word,
\* an offset word, and at the offset a length word followed by that many
\* bytes, all inside the data
WellFormedData(data) ==
    LET dataHex == SliceFrom(data, 2)
        offset == Times(ParseInt16(Slice(dataHex, 64, 128)), 2)
        length == Times(ParseInt16(Slice(dataHex, offset, Plus(offset, 64))), 2)
    IN  /\ Len(dataHex) >= 128
        /\ offset >= 0
        /\ offset + 64 <= Len(dataHex)
        /\ length >= 0
        /\ offset + 64 + length <= Len(dataHex)

MalformedLog(log) == Len(log.topics) # 4 \/ ~WellFormedData(log.data)

\* C33: decoding a log that has not exactly four topics, or whose data
\* points outside itself, ends in an error; no message is decoded from it.
C33_MalformedLogFailsToDecode ==
    (codec.pc \in {"decoded", "threw"} /\ MalformedLog(codec.log))
       => codec.pc = "threw"

-----------------------------------------------------------------------------
(* Properties of the status query of a workflow *)

\* The operation of a workflow result that has the given type
OperationOf(result, type) ==
    result.operations[CHOOSE i \in DOMAIN result.operations :
                        result.operations[i].type = type]

\* C34: monitorSwapBridgeSwap asks the monitor for the workflow's message
\* with the chain the message was sent on, which is the chain of the
\* workflow's source swap, and with the hash of the transaction that sent
\* it, which is the txHash of the cross-chain operation.
C34_QueriesSourceChainAndTransaction ==
    [][(/\ completion.pc = "monitor"
        /\ completion'.pc # "monitor"
        /\ completion.tracked.destSwapMessageHash # Undefined) =>
         LET call == MonitorSwapBridgeSwapCall(completion.tracked)
         IN  /\ call.sourceChainId =
                  OperationOf(completion.tracked, "swap").chainId
             /\ call.txHash =
                  OperationOf(completion.tracked, "cross-chain-swap").txHash]_vars

-----------------------------------------------------------------------------
(* Properties relating the direct lookup and the poll scan *)

\* The log is the one monitorMessage takes up for its transaction: the
\* first SentMessage log of the receipt
TakenUpByLookup(c, log) ==
    /\ HasSentLog(c, log.transactionHash)
    /\ SentMessageLogs(GetTransactionReceipt(c, log.transactionHash))[1] = log

\* C35: for the SentMessage log a poll tick is at, monitorMessage called for
\* the log's transaction returns the MessageStatus the tick is about to
\* deliver: the same identifier, message hash, state and relayTxHash, the
\* probe of both reading the same destination log; and a status returned
\* and a status delivered for one transaction carry the same identifier and
\* hash, and the same relayTxHash when they carry the same state.
C35_LookupAndScanAgree ==
    /\ \A c \in Clients, s \in 1..MaxTicks :
         (/\ ticks[c][s].pc = "checkRelayStatus"
          /\ TakenUpByLookup(c, Head(ticks[c][s].pending))) =>
            \A rpcOk \in BOOLEAN :
              LET direct ==
                      MonitorMessageResult(
                          c, Head(ticks[c][s].pending).transactionHash,
                          TRUE, TRUE, rpcOk)
              IN  /\ direct.kind = "status"
                  /\ direct.status = PollMessageStatus(ticks[c][s], rpcOk)
    /\ (/\ lastOp.op = "monitorMessage"
        /\ lastOp.result.kind = "status"
        /\ lastCallback.chainId = lastOp.chainId
        /\ lastCallback.status.txHash = lastOp.txHash) =>
          /\ lastCallback.status.messageHash = lastOp.result.status.messageHash
          /\ lastCallback.status.identifier = lastOp.result.status.identifier
          /\ lastCallback.status.status = lastOp.result.status.status =>
               lastCallback.status = lastOp.result.status

\* monitorMessage(901, 0xAA) and a poll tick of 901 both reported the
\* message of 0xAA relayed by the same destination transaction
C35_Witness ==
    /\ lastOp.op = "monitorMessage"
    /\ lastOp.chainId = 901
    /\ lastOp.txHash = "0xAA"
    /\ lastOp.result.kind = "status"
    /\ lastOp.result.status.status = "relayed"
    /\ lastCallback.chainId = 901
    /\ lastCallback.status = lastOp.result.status

-----------------------------------------------------------------------------
(* Properties of the window of a poll tick *)

\* C36: the fromBlock a poll tick asks the logs from is never negative,
\* whatever the height of the chain, heights below the size of the window
\* included.
C36_FromBlockNeverNegative ==
    \A c \in Clients, s \in 1..MaxTicks :
      ticks[c][s].pc = "getLogs" => ticks[c][s].fromBlock >= 0

-----------------------------------------------------------------------------
(* Properties of the message hash of a workflow result *)

\* C37: the result a successful executeSwapBridgeSwap returns carries a
\* defined destSwapMessageHash, whatever receipt the cross-chain submission
\* came back with; a submission that yields no message hash does not end in
\* a successful result.
C37_ResultCarriesMessageHash ==
    [][(WorkflowEnded /\ workflow'.result.kind = "result") =>
         workflow'.result.destSwapMessageHash # Undefined]_vars

-----------------------------------------------------------------------------
(* Properties of a subscription callback that throws *)

\* This step invokes a callback that throws
CallbackThrows ==
    /\ lastCallback'.seq # lastCallback.seq
    /\ lastCallback'.callback \in ThrowingCallbacks

\* C38: when a callback throws, the tick that invoked it goes on with the
\* SentMessage logs that remain, no other tick, timer or flag is touched and
\* no poll error is raised; every log the tick then brings to the probe is
\* delivered; and on every chain a tick fires again after the one in flight.
C38_ThrowingCallbackIsContained ==
    /\ [][CallbackThrows =>
            \E c \in Clients, s \in 1..MaxTicks :
              /\ ticks[c][s].pc = "checkRelayStatus"
              /\ ticks' = SetTick(c, s, NextLog(ticks[c][s],
                                                Tail(ticks[c][s].pending)))
              /\ UNCHANGED <<monitor, pollError>>]_vars
    /\ [][\A c \in Clients, s \in 1..MaxTicks :
            (/\ ticks[c][s].pc = "checkRelayStatus"
             /\ ticks'[c][s] # ticks[c][s]) =>
               /\ lastCallback'.seq # lastCallback.seq
               /\ lastCallback'.status.txHash =
                    Head(ticks[c][s].pending).transactionHash]_vars
    /\ \A c \in Clients :
         (lastCallback.callback \in ThrowingCallbacks /\ InFlight(c) = {})
            ~> (InFlight(c) # {})

\* The callback threw when it was handed the message of 0xCC; the message
\* of 0xDD, two logs later in the scan of 902, was delivered after that
C38_Witness ==
    /\ lastCallback.callback \in ThrowingCallbacks
    /\ lastCallback.chainId = 902
    /\ lastCallback.status.txHash = "0xDD"
    /\ reported["0xCC"] # "none"
    /\ isMonitoring

-----------------------------------------------------------------------------
(* Properties of the resolution of token symbols *)

\* The token is a symbol that has no address on the chain
Unresolvable(tokenOrSymbol, chainId) ==
    /\ tokenOrSymbol \notin TokenAddresses
    /\ GetTokenAddress(ToUpperCase(tokenOrSymbol), chainId) = Undefined

AnyUnresolvable(params) ==
    \/ Unresolvable(params.sourceTokenIn, params.sourceChain)
    \/ Unresolvable(params.sourceTokenOut, params.sourceChain)
    \/ Unresolvable(params.destTokenIn, params.destinationChain)
    \/ Unresolvable(params.destTokenOut, params.destinationChain)

\* C39: a call one of whose four tokens is a symbol without address on its
\* chain ends at once with an error, no provider call made and no operation
\* recorded; and a token given as an address reaches the call data of its
\* swap as it was given.
C39_TokensResolvedBeforeSubmission ==
    /\ [][(workflow.pc = "idle" /\ workflow'.pc # "idle") =>
            LET params == workflow'.params
            IN  /\ AnyUnresolvable(params) =>
                     /\ workflow'.pc = "ended"
                     /\ workflow'.result.kind = "error"
                     /\ workflow'.calls = <<>>
                     /\ workflow'.operations = <<>>
                /\ workflow'.pc = "executeLocal" =>
                     /\ params.sourceTokenIn \in TokenAddresses =>
                          workflow'.data[1].tokenIn = params.sourceTokenIn
                     /\ params.sourceTokenOut \in TokenAddresses =>
                          workflow'.data[1].tokenOut = params.sourceTokenOut]_vars
    /\ [][(workflow.pc = "bridgeTokens" /\ workflow'.pc = "executeCrossChain") =>
            LET params == workflow'.params
            IN  /\ params.destTokenIn \in TokenAddresses =>
                     workflow'.data[2].tokenIn = params.destTokenIn
                /\ params.destTokenOut \in TokenAddresses =>
                     workflow'.data[2].tokenOut = params.destTokenOut]_vars
    /\ [][(workflow.pc # "idle" /\ AnyUnresolvable(workflow.params)) =>
            workflow'.calls = <<>> /\ workflow'.operations = <<>>]_vars

\* A workflow from 901 to 10 whose source tokens are addresses and whose
\* last token, destTokenOut, is a symbol no table knows has ended with the
\* error, nothing submitted and nothing recorded
C39_Witness ==
    /\ workflow.pc = "ended"
    /\ workflow.result.kind = "error"
    /\ workflow.params.sourceChain = 901
    /\ workflow.params.destinationChain = 10
    /\ workflow.params.sourceTokenIn = "0xToken"
    /\ workflow.params.sourceTokenOut = "0xSuper"
    /\ workflow.params.destTokenIn = "USDC"
    /\ workflow.params.destTokenOut = "DAI"
    /\ workflow.calls = <<>>
    /\ workflow.operations = <<>>

-----------------------------------------------------------------------------
(* Properties of the account contract's spend limit *)

\* This step is a bridgeERC20 transaction
Bridged ==
    /\ account' # account
    /\ account'.lastCall.function = "bridgeERC20"

====
